---- MODULE Spec2Model ----
(***************************************************************************)
(* Line-oriented JSON tokenizer with Postman-variable ({{name}})           *)
(* recognition (src/language/json/tokenization.ts), driven by the          *)
(* jsonc-parser scanner.  Text is a sequence of one-character strings;     *)
(* positions are 0-based as in the source.                                 *)
(***************************************************************************)
EXTENDS Integers, Sequences, FiniteSets, TLC

(***************************************************************************)
(* Bounds of the model.                                                    *)
(***************************************************************************)
\* fragments typed into one document (all its lines together)
MaxKeys == 4
\* lines of one document
MaxLines == 2
\* characters of one line
MaxLen == 7
\* documents tokenized from scratch
MaxDocs == 2

\* JS `undefined` / absent endIndex of a token object
NoEnd == -1

(***************************************************************************)
(* Strings.                                                                *)
(***************************************************************************)
\* s.charAt(i), "" past the end
At(s, i) == IF i >= 0 /\ i < Len(s) THEN s[i + 1] ELSE ""

\* s.substring(from, to) with 0 <= from
Substring(s, from, to) ==
    LET t == IF to > Len(s) THEN Len(s) ELSE to
    IN  IF from >= t THEN <<>> ELSE SubSeq(s, from + 1, t)

\* s.substr(from, length)
Substr(s, from, length) == Substring(s, from, IF length < 0 THEN from ELSE from + length)

\* s.substr(from)
SubstrFrom(s, from) == Substring(s, from, Len(s))

Max(a, b) == IF a > b THEN a ELSE b

(***************************************************************************)
(* The scanner of jsonc-parser, as tokenize drives it: createScanner(line),*)
(* scan(), getPosition(), getTokenOffset(), getTokenLength(),              *)
(* getTokenError(), setPosition().  A scan from position pos yields the    *)
(* token kind, the new position, the token offset and the token error.     *)
(***************************************************************************)
isWhiteSpace(c) == c \in {" ", "\t"}
isLineBreak(c) == c \in {"\n", "\r"}
isDigit(c) == c \in {"0", "1", "2", "3", "4", "5", "6", "7", "8", "9"}
isHexDigit(c) == isDigit(c) \/ c \in {"a", "b", "c", "d", "e", "f", "A", "B", "C", "D", "E", "F"}
isUnknownContentCharacter(c) ==
    /\ c # ""
    /\ ~isWhiteSpace(c)
    /\ ~isLineBreak(c)
    /\ c \notin {"}", "]", "{", "[", "\"", ":", ",", "/"}

RECURSIVE SkipWhiteSpace(_, _)
SkipWhiteSpace(text, p) ==
    IF isWhiteSpace(At(text, p)) THEN SkipWhiteSpace(text, p + 1) ELSE p

RECURSIVE SkipDigits(_, _)
SkipDigits(text, p) ==
    IF p < Len(text) /\ isDigit(At(text, p)) THEN SkipDigits(text, p + 1) ELSE p

RECURSIVE SkipUnknownContent(_, _)
SkipUnknownContent(text, p) ==
    IF p < Len(text) /\ isUnknownContentCharacter(At(text, p))
    THEN SkipUnknownContent(text, p + 1) ELSE p

RECURSIVE SkipToLineBreak(_, _)
SkipToLineBreak(text, p) ==
    IF p < Len(text) /\ ~isLineBreak(At(text, p)) THEN SkipToLineBreak(text, p + 1) ELSE p

\* scanHexDigits(4, true): the position after at most 4 hex digits
RECURSIVE scanHexDigits(_, _, _)
scanHexDigits(text, p, count) ==
    IF count > 0 /\ isHexDigit(At(text, p)) THEN scanHexDigits(text, p + 1, count - 1) ELSE p

\* scanString: p is the position after the opening quote
RECURSIVE scanString(_, _, _)
scanString(text, p, err) ==
    IF p >= Len(text) THEN [pos |-> p, error |-> "UnexpectedEndOfString"]
    ELSE LET ch == At(text, p) IN
         IF ch = "\"" THEN [pos |-> p + 1, error |-> err]
         ELSE IF ch = "\\" THEN
              IF p + 1 >= Len(text) THEN [pos |-> p + 1, error |-> "UnexpectedEndOfString"]
              ELSE LET ch2 == At(text, p + 1) IN
                   IF ch2 \in {"\"", "\\", "/", "b", "f", "n", "r", "t"}
                   THEN scanString(text, p + 2, err)
                   ELSE IF ch2 = "u"
                   THEN LET q == scanHexDigits(text, p + 2, 4) IN
                        scanString(text, q, IF q = p + 6 THEN err ELSE "InvalidUnicode")
                   ELSE scanString(text, p + 2, "InvalidEscapeCharacter")
         ELSE IF isLineBreak(ch) THEN [pos |-> p, error |-> "UnexpectedEndOfString"]
         ELSE IF ch = "\t" THEN scanString(text, p + 1, "InvalidCharacter")
         ELSE scanString(text, p + 1, err)

\* scanNumber: p is the position of the first digit
scanNumber(text, p) ==
    LET p1 == IF At(text, p) = "0" THEN p + 1 ELSE SkipDigits(text, p + 1)
        dot == p1 < Len(text) /\ At(text, p1) = "."
        fracOk == dot /\ p1 + 1 < Len(text) /\ isDigit(At(text, p1 + 1))
        p2 == IF fracOk THEN SkipDigits(text, p1 + 2) ELSE IF dot THEN p1 + 1 ELSE p1
    IN  IF dot /\ ~fracOk THEN [pos |-> p2, error |-> "UnexpectedEndOfNumber"]
        ELSE IF p2 < Len(text) /\ At(text, p2) \in {"E", "e"}
        THEN LET p3 == IF (p2 + 1 < Len(text) /\ At(text, p2 + 1) = "+") \/ At(text, p2 + 1) = "-"
                       THEN p2 + 2 ELSE p2 + 1
             IN  IF p3 < Len(text) /\ isDigit(At(text, p3))
                 THEN [pos |-> SkipDigits(text, p3 + 1), error |-> "None"]
                 ELSE [pos |-> p3, error |-> "UnexpectedEndOfNumber"]
        ELSE [pos |-> p2, error |-> "None"]

\* the position after a block comment opened at p - 2, and whether it closed
RECURSIVE scanBlockComment(_, _)
scanBlockComment(text, p) ==
    IF p < Len(text) - 1
    THEN IF At(text, p) = "*" /\ At(text, p + 1) = "/"
         THEN [pos |-> p + 2, error |-> "None"]
         ELSE scanBlockComment(text, p + 1)
    ELSE [pos |-> p + 1, error |-> "UnexpectedEndOfComment"]

Tok(kind, tokenOffset, pos, error) ==
    [kind |-> kind, tokenOffset |-> tokenOffset, pos |-> pos, error |-> error]

\* scanner.scan() from position pos
Scan(text, pos) ==
    IF pos >= Len(text) THEN Tok("EOF", Len(text), pos, "None")
    ELSE LET code == At(text, pos) IN
    CASE isWhiteSpace(code) -> Tok("Trivia", pos, SkipWhiteSpace(text, pos), "None")
      [] isLineBreak(code) ->
            Tok("LineBreakTrivia", pos,
                IF code = "\r" /\ At(text, pos + 1) = "\n" THEN pos + 2 ELSE pos + 1, "None")
      [] code = "{" -> Tok("OpenBraceToken", pos, pos + 1, "None")
      [] code = "}" -> Tok("CloseBraceToken", pos, pos + 1, "None")
      [] code = "[" -> Tok("OpenBracketToken", pos, pos + 1, "None")
      [] code = "]" -> Tok("CloseBracketToken", pos, pos + 1, "None")
      [] code = ":" -> Tok("ColonToken", pos, pos + 1, "None")
      [] code = "," -> Tok("CommaToken", pos, pos + 1, "None")
      [] code = "\"" ->
            LET r == scanString(text, pos + 1, "None")
            IN  Tok("StringLiteral", pos, r.pos, r.error)
      [] code = "/" ->
            IF At(text, pos + 1) = "/"
            THEN Tok("LineCommentTrivia", pos, SkipToLineBreak(text, pos + 2), "None")
            ELSE IF At(text, pos + 1) = "*"
            THEN LET r == scanBlockComment(text, pos + 2)
                 IN  Tok("BlockCommentTrivia", pos, r.pos, r.error)
            ELSE Tok("Unknown", pos, pos + 1, "None")
      [] code = "-" /\ ~isDigit(At(text, pos + 1)) -> Tok("Unknown", pos, pos + 1, "None")
      [] code = "-" /\ isDigit(At(text, pos + 1)) ->
            LET r == scanNumber(text, pos + 1)
            IN  Tok("NumericLiteral", pos, r.pos, r.error)
      [] isDigit(code) ->
            LET r == scanNumber(text, pos)
            IN  Tok("NumericLiteral", pos, r.pos, r.error)
      [] OTHER ->
            LET q == SkipUnknownContent(text, pos)
                value == Substring(text, pos, q)
            IN  IF q = pos THEN Tok("Unknown", pos, pos + 1, "None")
                ELSE IF value = <<"t", "r", "u", "e">> THEN Tok("TrueKeyword", pos, q, "None")
                ELSE IF value = <<"f", "a", "l", "s", "e">> THEN Tok("FalseKeyword", pos, q, "None")
                ELSE IF value = <<"n", "u", "l", "l">> THEN Tok("NullKeyword", pos, q, "None")
                ELSE Tok("Unknown", pos, q, "None")

(***************************************************************************)
(* Token kinds (scopes).                                                   *)
(***************************************************************************)
TOKEN_DELIM_OBJECT == "delimiter.bracket.json"
TOKEN_DELIM_ARRAY == "delimiter.array.json"
TOKEN_DELIM_COLON == "delimiter.colon.json"
TOKEN_DELIM_COMMA == "delimiter.comma.json"
TOKEN_VALUE_BOOLEAN == "keyword.json"
TOKEN_VALUE_NULL == "keyword.json"
TOKEN_VALUE_STRING == "string.value.json"
TOKEN_VALUE_NUMBER == "number.json"
TOKEN_PROPERTY_NAME == "string.key.json"
TOKEN_COMMENT_BLOCK == "comment.block.json"
TOKEN_COMMENT_LINE == "comment.line.json"
TOKEN_POSTMAN_VARIABLE == "postman.variable.json"
TOKEN_POSTMAN_VARIABLE_IN_STRING == "postman.variable.string.json"

(***************************************************************************)
(* ParentsStack: an immutable linked list of frames.  A stack is the       *)
(* sequence of its frames, top first; null is the empty sequence.  Every   *)
(* frame carries the identity (id) of the object `new ParentsStack`        *)
(* created, so a === b is equality of the top frames' ids.                 *)
(***************************************************************************)
\* a pop that answers an empty stack with a root frame
ParentsStack_pop_rootFrame(parents) ==
    IF parents # <<>> THEN Tail(parents) ELSE <<[type |-> "Object", id |-> -1]>>

ParentsStack_pop(parents) == IF parents # <<>> THEN Tail(parents) ELSE <<>>

ParentsStack_push(parents, type, id) == <<[type |-> type, id |-> id]>> \o parents

RECURSIVE ParentsStack_walk(_, _)
ParentsStack_walk(a, b) ==
    IF a # <<>> /\ b # <<>>
    THEN IF Head(a).id = Head(b).id THEN TRUE
         ELSE IF Head(a).type # Head(b).type THEN FALSE
         ELSE ParentsStack_walk(Tail(a), Tail(b))
    ELSE TRUE

ParentsStack_equals(a, b) ==
    IF a = <<>> /\ b = <<>> THEN TRUE
    ELSE IF a = <<>> \/ b = <<>> THEN FALSE
    ELSE ParentsStack_walk(a, b)

(***************************************************************************)
(* JSONState.                                                              *)
(***************************************************************************)
JSONState(state, scanError, lastWasColon, parents) ==
    [stateData |-> state, scanError |-> scanError,
     lastWasColon |-> lastWasColon, parents |-> parents]

\* getInitialState()
InitialState == JSONState("null", "null", FALSE, <<>>)

JSONState_equals(this, other) ==
    /\ this.scanError = other.scanError
    /\ this.lastWasColon = other.lastWasColon
    /\ ParentsStack_equals(this.parents, other.parents)

(***************************************************************************)
(* createPostmanVariableScanner: the bracket matching of '{{' ... '}}'.    *)
(***************************************************************************)
PvToken(startIndex, scopes, endIndex) ==
    [startIndex |-> startIndex, scopes |-> scopes, endIndex |-> endIndex]

Front(s) == IF s = <<>> THEN <<>> ELSE SubSeq(s, 1, Len(s) - 1)

\* a pop loop that matches the two topmost markers, adjacent or not
PvPopPairs_anyPair(stack, cur) ==
    IF Len(stack) >= 2
    THEN [found |-> TRUE, stack |-> SubSeq(stack, 1, Len(stack) - 2),
          popped |-> stack[Len(stack) - 1]]
    ELSE [found |-> FALSE, stack |-> <<>>]

\* the inner `while (stack.length >= 0)` loop; cur is currentPopped (<<>>: null)
RECURSIVE PvPopPairs(_, _)
PvPopPairs(stack, cur) ==
    IF cur = <<>>
    THEN IF stack = <<>> THEN [found |-> FALSE, stack |-> <<>>]
         ELSE PvPopPairs(Front(stack), <<stack[Len(stack)]>>)
    ELSE IF stack = <<>> THEN [found |-> FALSE, stack |-> <<>>]
         ELSE LET nextPopped == stack[Len(stack)] IN
              IF cur[1].startIndex = nextPopped.startIndex + 1
              THEN [found |-> TRUE, stack |-> Front(stack), popped |-> nextPopped]
              ELSE PvPopPairs(Front(stack), <<nextPopped>>)

\* the outer `while (pos < length)` loop: the matched brackets, in match order
RECURSIVE PvMatch(_, _, _, _, _, _)
PvMatch(s, offset, inString, pos, stack, matched) ==
    IF pos >= Len(s) THEN matched
    ELSE IF At(s, pos) = "{"
    THEN PvMatch(s, offset, inString, pos + 1,
                 Append(stack, PvToken(offset + pos, "", 0)), matched)
    ELSE IF At(s, pos) = "}" /\ pos + 1 < Len(s) /\ At(s, pos + 1) = "}"
    THEN LET r == PvPopPairs(stack, <<>>) IN
         IF r.found
         THEN PvMatch(s, offset, inString, pos + 2, r.stack,
                      Append(matched,
                             PvToken(r.popped.startIndex,
                                     IF inString THEN TOKEN_POSTMAN_VARIABLE_IN_STRING
                                                 ELSE TOKEN_POSTMAN_VARIABLE,
                                     offset + pos + 1)))
         ELSE PvMatch(s, offset, inString, pos + 1, r.stack, matched)
    ELSE PvMatch(s, offset, inString, pos + 1, stack, matched)

\* matchedBrackets.sort((a, b) => a.startIndex - b.startIndex)
RECURSIVE PvInsert(_, _)
PvInsert(sorted, t) ==
    IF sorted = <<>> THEN <<t>>
    ELSE IF t.startIndex < Head(sorted).startIndex THEN <<t>> \o sorted
    ELSE <<Head(sorted)>> \o PvInsert(Tail(sorted), t)

RECURSIVE PvSort(_)
PvSort(m) == IF m = <<>> THEN <<>> ELSE PvInsert(PvSort(Front(m)), m[Len(m)])

\* "remove nested brackets"
RECURSIVE PvFilter(_, _)
PvFilter(m, endIndexOfLastFilteredBracket) ==
    IF m = <<>> THEN <<>>
    ELSE IF Head(m).startIndex > endIndexOfLastFilteredBracket
    THEN <<Head(m)>> \o PvFilter(Tail(m), Head(m).endIndex)
    ELSE PvFilter(Tail(m), endIndexOfLastFilteredBracket)

\* the `for` loop over filteredBrackets that builds scannedResults
RECURSIVE PvBuild(_, _, _, _, _, _)
PvBuild(f, i, inString, fill, endIndexLastTokenCreated, scannedResults) ==
    IF i > Len(f) THEN [results |-> scannedResults, endLast |-> endIndexLastTokenCreated]
    ELSE LET current == f[i]
             created == endIndexLastTokenCreated < current.startIndex
             res1 == IF created THEN Append(scannedResults, current) ELSE scannedResults
             end1 == IF created THEN current.endIndex ELSE endIndexLastTokenCreated
         IN  IF i = Len(f) \/ f[i + 1].startIndex = current.endIndex + 1
             THEN PvBuild(f, i + 1, inString, fill, end1, res1)
             ELSE PvBuild(f, i + 1, inString, fill, f[i + 1].startIndex - 1,
                          IF inString
                          THEN Append(res1, PvToken(current.endIndex + 1, fill,
                                                    f[i + 1].startIndex - 1))
                          ELSE res1)

\* lines 439-446: the filler after the last placeholder
PvTrailing(b, offset, length, fill, inString) ==
    IF b.endLast < offset + length /\ inString
    THEN Append(b.results, PvToken(b.endLast + 1, fill, NoEnd))
    ELSE b.results

\* lines 401-446: the filler before the first placeholder (lead), the loop, the trailing filler
PvResults(filteredBrackets, offset, length, fill, inString, lead) ==
    PvTrailing(PvBuild(filteredBrackets, 1, inString, fill,
                       IF lead THEN filteredBrackets[1].startIndex - 1 ELSE -1,
                       IF lead
                       THEN <<PvToken(offset, fill, filteredBrackets[1].startIndex - 1)>>
                       ELSE <<>>),
               offset, length, fill, inString)

\* lines 385-447: `if (matchedBrackets.length)`, on the sorted matches
PvScanned(matchedBrackets, offset, length, fill, inString) ==
    IF matchedBrackets = <<>> THEN <<>>
    ELSE PvResults(PvFilter(matchedBrackets, -1), offset, length, fill, inString,
                   inString /\ PvFilter(matchedBrackets, -1)[1].startIndex # offset)

\* a scanner that gives a string without placeholders one filler token
createPostmanVariableScanner_fillerAlways(stringLiteral, offset, inValue, inString) ==
    IF inString
    THEN <<PvToken(offset, IF inValue THEN TOKEN_VALUE_STRING ELSE TOKEN_PROPERTY_NAME, NoEnd)>>
    ELSE <<>>

createPostmanVariableScanner(stringLiteral, offset, inValue, inString) ==
    PvScanned(PvSort(PvMatch(stringLiteral, offset, inString, 0, <<>>, <<>>)),
              offset, Len(stringLiteral),
              IF inValue THEN TOKEN_VALUE_STRING ELSE TOKEN_PROPERTY_NAME, inString)

\* stringLiteral.indexOf(c), -1 when absent
RECURSIVE IndexOfFrom(_, _, _)
IndexOfFrom(s, c, i) ==
    IF i >= Len(s) THEN -1 ELSE IF At(s, i) = c THEN i ELSE IndexOfFrom(s, c, i + 1)

RECURSIVE findClosestLoop(_, _, _, _)
findClosestLoop(stringLiteral, delimiter, i, leastIndex) ==
    IF i > Len(delimiter) THEN leastIndex
    ELSE LET index == IndexOfFrom(stringLiteral, delimiter[i], 0) IN
         findClosestLoop(stringLiteral, delimiter, i + 1,
                         IF index > -1 /\ (leastIndex = -1 \/ leastIndex > index)
                         THEN index ELSE leastIndex)

\* a search that knows the end of the line as the only delimiter
findClosestDelimiter_endOfLine(stringLiteral, delimiter) == Len(stringLiteral) - 1

\* leastIndex Infinity is -1 here: the result is the least index, or -1
findClosestDelimiter(stringLiteral, delimiter) ==
    IF Len(delimiter) = 0 THEN -1 ELSE findClosestLoop(stringLiteral, delimiter, 1, -1)

(***************************************************************************)
(* tokenize.  The body of the `while (true)` loop is TokenizeStep; the     *)
(* loop state l holds the locals of tokenize: the scanner position (pos),  *)
(* adjustOffset, openBracesCount, lastWasColon, parents, ret.tokens,       *)
(* ret.endState, the count of ParentsStack objects created so far          *)
(* (nextId), whether 'Scanner did not advance' was thrown, and a history   *)
(* of the iterations (steps) that the properties below read.               *)
(***************************************************************************)
Token(startIndex, scopes) == PvToken(startIndex, scopes, NoEnd)

\* the synthetic prefix of lines 160-169
InsertedCharacters(state) ==
    CASE state.scanError = "UnexpectedEndOfString" -> <<"\"">>
      [] state.scanError = "UnexpectedEndOfComment" -> <<"/", "*">>
      [] OTHER -> <<>>

\* case SyntaxKind.OpenBraceToken on the second of two consecutive braces,
\* languageId 'postman_json': the placeholder tokens found ("none": no
\* delimiter, the `else` of line 240)
PostmanDetect(line, t, offset, lastWasColon) ==
    LET stringFromDoubleBraces == SubstrFrom(line, t.pos - 2) \o <<"\n">>
        delimiterIndex == findClosestDelimiter(stringFromDoubleBraces, <<",", ":", "]", "\n">>)
    IN  IF delimiterIndex >= 0
        THEN [attempted |-> TRUE,
              tokens |-> createPostmanVariableScanner(
                             Substring(stringFromDoubleBraces, 0, delimiterIndex),
                             offset - 1, lastWasColon, FALSE)]
        ELSE [attempted |-> FALSE, tokens |-> <<>>]

\* line 297: the kind of a string literal token
StringType_keyOnlyInArray(inValue, inArray) ==
    IF inArray THEN TOKEN_VALUE_STRING ELSE TOKEN_PROPERTY_NAME

StringType(inValue, inArray) ==
    IF inValue \/ inArray THEN TOKEN_VALUE_STRING ELSE TOKEN_PROPERTY_NAME

\* a splice that sets the scanner back to the first brace of the placeholder
PostmanSplice_rewind(b, d) ==
    IF ~d.attempted THEN [b EXCEPT !.type = TOKEN_DELIM_OBJECT]
    ELSE IF d.tokens # <<>>
    THEN [b EXCEPT !.tokens = Front(b.tokens) \o d.tokens,
                   !.pos = b.pos - 2,
                   !.error = "None",
                   !.parents = ParentsStack_pop(ParentsStack_pop(b.parents)),
                   !.skip = TRUE,
                   !.spliced = d.tokens,
                   !.detect = "matched"]
    ELSE [b EXCEPT !.detect = "failed"]

\* lines 219-242: what the detection d makes of the second brace; b holds the
\* locals after the push of line 215
PostmanSplice(b, d) ==
    IF ~d.attempted THEN [b EXCEPT !.type = TOKEN_DELIM_OBJECT]
    ELSE IF d.tokens # <<>>
    THEN [b EXCEPT !.tokens = Front(b.tokens) \o d.tokens,
                   !.pos = d.tokens[Len(d.tokens)].endIndex + 1,
                   !.error = "None",
                   !.parents = ParentsStack_pop(ParentsStack_pop(b.parents)),
                   !.skip = TRUE,
                   !.spliced = d.tokens,
                   !.detect = "matched"]
    ELSE [b EXCEPT !.detect = "failed"]

\* the `switch (kind)` of lines 213-304 and the comments switch of 307-316:
\* type, skip, lastWasColon, parents, tokens to splice, scanner position
TokenizeSwitch(comments, languageId, line, t, offset, l) ==
    LET base == [type |-> "", skip |-> FALSE, lastWasColon |-> FALSE,
                 parents |-> l.parents, nextId |-> l.nextId, pos |-> t.pos,
                 error |-> t.error, tokens |-> l.tokens, inString |-> <<>>,
                 spliced |-> <<>>, detect |-> "none"]
        openBracesCount == IF t.kind = "OpenBraceToken" THEN l.openBracesCount + 1 ELSE 0
    IN
    CASE t.kind = "OpenBraceToken" ->
            IF openBracesCount = 2 /\ languageId = "postman_json"
            THEN PostmanSplice([base EXCEPT
                                  !.parents = ParentsStack_push(l.parents, "Object", l.nextId),
                                  !.nextId = l.nextId + 1],
                               PostmanDetect(line, t, offset, l.lastWasColon))
            ELSE [base EXCEPT !.parents = ParentsStack_push(l.parents, "Object", l.nextId),
                              !.nextId = l.nextId + 1,
                              !.type = TOKEN_DELIM_OBJECT]
      [] t.kind = "CloseBraceToken" ->
            [base EXCEPT !.parents = ParentsStack_pop(l.parents), !.type = TOKEN_DELIM_OBJECT]
      [] t.kind = "OpenBracketToken" ->
            [base EXCEPT !.parents = ParentsStack_push(l.parents, "Array", l.nextId),
                         !.nextId = l.nextId + 1, !.type = TOKEN_DELIM_ARRAY]
      [] t.kind = "CloseBracketToken" ->
            [base EXCEPT !.parents = ParentsStack_pop(l.parents), !.type = TOKEN_DELIM_ARRAY]
      [] t.kind = "ColonToken" ->
            [base EXCEPT !.type = TOKEN_DELIM_COLON, !.lastWasColon = TRUE]
      [] t.kind = "CommaToken" -> [base EXCEPT !.type = TOKEN_DELIM_COMMA]
      [] t.kind \in {"TrueKeyword", "FalseKeyword"} -> [base EXCEPT !.type = TOKEN_VALUE_BOOLEAN]
      [] t.kind = "NullKeyword" -> [base EXCEPT !.type = TOKEN_VALUE_NULL]
      [] t.kind = "StringLiteral" ->
            LET currentParent == IF l.parents # <<>> THEN Head(l.parents).type ELSE "Object"
                inArray == currentParent = "Array"
                inValue == l.lastWasColon \/ inArray
                tokenValue == Substr(line, t.tokenOffset + 1, (t.pos - t.tokenOffset) - 2)
            IN  [base EXCEPT
                   !.inString = IF languageId = "postman_json"
                                THEN createPostmanVariableScanner(tokenValue, offset + 1,
                                                                  inValue, TRUE)
                                ELSE <<>>,
                   !.type = StringType(inValue, inArray)]
      [] t.kind = "NumericLiteral" -> [base EXCEPT !.type = TOKEN_VALUE_NUMBER]
      [] t.kind = "LineCommentTrivia" ->
            [base EXCEPT !.lastWasColon = l.lastWasColon,
                         !.type = IF comments THEN TOKEN_COMMENT_LINE ELSE ""]
      [] t.kind = "BlockCommentTrivia" ->
            [base EXCEPT !.lastWasColon = l.lastWasColon,
                         !.type = IF comments THEN TOKEN_COMMENT_BLOCK ELSE ""]
      [] OTHER -> [base EXCEPT !.lastWasColon = l.lastWasColon]

\* lines 318-332 of an iteration: the end state and the tokens pushed, s
\* being what the switches made of token t at offset
TokenizeEmit(n, state, offset, t, l, s) ==
    [pos |-> s.pos,
     adjustOffset |-> n > 0,
     openBracesCount |-> IF t.kind = "OpenBraceToken" THEN l.openBracesCount + 1 ELSE 0,
     lastWasColon |-> s.lastWasColon,
     parents |-> s.parents,
     tokens |-> (IF s.skip THEN s.tokens ELSE Append(s.tokens, Token(offset, s.type)))
                    \o s.inString,
     endState |-> JSONState(state.stateData, s.error, s.lastWasColon, s.parents),
     nextId |-> s.nextId,
     threw |-> FALSE,
     steps |-> Append(l.steps,
                      [kind |-> t.kind, from |-> l.pos, to |-> t.pos, resume |-> s.pos,
                       offset |-> offset, type |-> s.type, skip |-> s.skip,
                       detect |-> s.detect, inString |-> s.inString,
                       lastWasColon |-> l.lastWasColon, parents |-> l.parents,
                       after |-> s.parents, spliced |-> s.spliced,
                       error |-> t.error])]

\* lines 199-204: the offset of the token scanned from l.pos
TokenOffset(n, offsetDelta, l) ==
    IF l.adjustOffset THEN offsetDelta + l.pos - n ELSE offsetDelta + l.pos

\* one iteration of the loop, after scan() returned token t (not EOF)
TokenizeStep(comments, languageId, line, n, state, offsetDelta, t, l) ==
    TokenizeEmit(n, state, TokenOffset(n, offsetDelta, l), t, l,
                 TokenizeSwitch(comments, languageId, line, t,
                                TokenOffset(n, offsetDelta, l), l))

RECURSIVE TokenizeLoop(_, _, _, _, _, _, _)
\* lines 187-197: t is what scan() returned from l.pos
TokenizeScanned(comments, languageId, line, n, state, offsetDelta, l, t) ==
    IF t.kind = "EOF" THEN l
    ELSE IF offsetDelta + l.pos = offsetDelta + t.pos THEN [l EXCEPT !.threw = TRUE]
    ELSE TokenizeLoop(comments, languageId, line, n, state, offsetDelta,
                      TokenizeStep(comments, languageId, line, n, state, offsetDelta, t, l))

TokenizeLoop(comments, languageId, line, n, state, offsetDelta, l) ==
    TokenizeScanned(comments, languageId, line, n, state, offsetDelta, l, Scan(line, l.pos))

\* what tokenize returns, with the history of the loop
TokenizeResult(l) ==
    [tokens |-> l.tokens, endState |-> l.endState, nextId |-> l.nextId,
     threw |-> l.threw, steps |-> l.steps]

\* tokenize(comments, line, state, offsetDelta, languageId); nextId is the
\* number of ParentsStack objects created before the call
tokenize(comments, line, state, offsetDelta, languageId, nextId) ==
    TokenizeResult(
        TokenizeLoop(comments, languageId, InsertedCharacters(state) \o line,
                     Len(InsertedCharacters(state)), state, offsetDelta,
                     [pos |-> 0, adjustOffset |-> FALSE, openBracesCount |-> 0,
                      lastWasColon |-> state.lastWasColon, parents |-> state.parents,
                      tokens |-> <<>>, endState |-> state, nextId |-> nextId,
                      threw |-> FALSE, steps |-> <<>>]))

\* The JSONState objects of one call, numbered in order of creation: 0 is
\* the state passed in, 1 the clone of line 178, 1 + i the `new JSONState`
\* of iteration i (line 318).  The object ret.endState refers to on return:
EndStateObject(steps) == Len(steps) + 1

\* the fields of the state object passed in, as the call leaves them:
\* tokenize copies them into locals (lines 172-173) and assigns to none of
\* them; r is what the call returns
StateAfterTokenize_aliased(state, r) == r.endState

StateAfterTokenize(state, r) == state

(***************************************************************************)
(* The tokens provider at work: an editor feeds a document to tokenize     *)
(* line by line, threading the end state of a line into the next line      *)
(* (createTokenizationSupport).  The text of a line is typed as fragments  *)
(* of the document's alphabet.                                             *)
(***************************************************************************)
VARIABLES
    cfg,      \* supportComments, languageId, the alphabet and the key budget
    state,    \* the JSONState the current line is tokenized from
    line,     \* the text of the current line
    phase,    \* "typing": the line is being typed; "tokenized": ret holds its tokens
    ret,      \* what tokenize returned for the line
    lineNo,   \* the number of the current line, from 1
    keys,     \* fragments typed so far
    nextId,   \* ParentsStack objects created so far
    ghost,    \* history: what the lines before the current one contained
    memo,     \* an end state a caller kept from an earlier tokenize call
    docNo,    \* the number of the current document, from 1
    heap,     \* the JSONState objects of the last call: the object passed in
              \* (object 0) as the call left it, and the object returned
    fmt       \* the formatter: the document, the range and options of the
              \* format call, and what formatJSON returned

tokVars == <<cfg, state, line, phase, ret, lineNo, keys, nextId, ghost, memo, docNo, heap>>

vars == <<cfg, state, line, phase, ret, lineNo, keys, nextId, ghost, memo, docNo, heap, fmt>>

\* no call yet: the state object is untouched, nothing is returned
NoCall == [stateAfter |-> InitialState, endStateObject |-> 0]

\* no document to format
NoFmt == [phase |-> "none"]

NoRet == [tokens |-> <<>>, endState |-> InitialState, nextId |-> 0,
          threw |-> FALSE, steps |-> <<>>]

\* the text a line is made of
Chars == {<<"{">>, <<"[">>, <<"]">>, <<":">>, <<"\"">>, <<"a">>, <<" ">>,
          <<"/", "*">>, <<"*", "/">>}

InitWith(alphabet, languages, budget) ==
    /\ cfg \in [comments : BOOLEAN, languageId : languages,
                alphabet : {alphabet}, budget : {budget}]
    /\ state = InitialState
    /\ line = <<>>
    /\ phase = "typing"
    /\ ret = NoRet
    /\ lineNo = 1
    /\ keys = 0
    /\ nextId = 0
    /\ ghost = [depth |-> 0, lastKind |-> "none", lastSig |-> "none"]
    /\ memo = InitialState
    /\ docNo = 1
    /\ heap = NoCall
    /\ fmt = NoFmt

Init == InitWith(Chars, {"json", "postman_json"}, MaxKeys)

Type(f) ==
    /\ phase = "typing"
    /\ keys < cfg.budget
    /\ Len(line) + Len(f) <= MaxLen
    /\ line' = line \o f
    /\ keys' = keys + 1
    /\ UNCHANGED <<cfg, state, phase, ret, lineNo, nextId, ghost, memo, docNo, heap, fmt>>

Tokenize ==
    /\ phase = "typing"
    /\ ret' = tokenize(cfg.comments, line, state, 0, cfg.languageId, nextId)
    /\ nextId' = ret'.nextId
    /\ phase' = "tokenized"
    /\ heap' = [stateAfter |-> StateAfterTokenize(state, ret'),
                endStateObject |-> EndStateObject(ret'.steps)]
    /\ UNCHANGED <<cfg, state, line, lineNo, keys, ghost, memo, docNo, fmt>>

(***************************************************************************)
(* History of the document, kept for the properties: the nesting depth of  *)
(* the text and the kind of the last token that is not trivia, both read   *)
(* off the text and the scanner's tokens, not off the tokenizer's state.   *)
(***************************************************************************)
TriviaKinds == {"Trivia", "LineBreakTrivia", "LineCommentTrivia", "BlockCommentTrivia"}

\* the top-level placeholder tokens of a result
PostmanVariables(r) ==
    {r.tokens[i] : i \in {j \in 1..Len(r.tokens) : r.tokens[j].scopes = TOKEN_POSTMAN_VARIABLE}}

\* the nesting depth after the text from position p on (text carries the n
\* inserted characters; pvs are the recognised placeholders, whose braces
\* are not structural), d being the depth before it
RECURSIVE NestingDepth(_, _, _, _, _)
NestingAfter(text, n, pvs, p, d, t) ==
    IF t.kind = "EOF" THEN d
    ELSE IF t.kind = "OpenBraceToken" /\ \E v \in pvs : v.startIndex = p - n
    THEN NestingDepth(text, n, pvs,
                      (CHOOSE v \in pvs : v.startIndex = p - n).endIndex + n + 1, d)
    ELSE NestingDepth(text, n, pvs, t.pos,
                      CASE t.kind \in {"OpenBraceToken", "OpenBracketToken"} -> d + 1
                        [] t.kind \in {"CloseBraceToken", "CloseBracketToken"} -> Max(d - 1, 0)
                        [] OTHER -> d)

NestingDepth(text, n, pvs, p, d) == NestingAfter(text, n, pvs, p, d, Scan(text, p))

\* the nesting depth at the end of the current line
DepthAfterLine ==
    NestingDepth(InsertedCharacters(state) \o line, Len(InsertedCharacters(state)),
                 PostmanVariables(ret), 0, ghost.depth)

\* the kind of the last of the scanned tokens 1..i whose kind is not in
\* skipped (before: that of the earlier lines; "none": no such token)
RECURSIVE LastKind(_, _, _, _)
LastKind(steps, i, skipped, before) ==
    IF i = 0 THEN before
    ELSE IF steps[i].kind \notin skipped THEN steps[i].kind
    ELSE LastKind(steps, i - 1, skipped, before)

NextLine ==
    /\ phase = "tokenized"
    /\ lineNo < MaxLines
    /\ state' = ret.endState
    /\ ghost' = [depth |-> DepthAfterLine,
                 lastKind |-> LastKind(ret.steps, Len(ret.steps), TriviaKinds, ghost.lastKind),
                 lastSig |-> LastKind(ret.steps, Len(ret.steps), TriviaKinds \cup {"Unknown"},
                                      ghost.lastSig)]
    /\ line' = <<>>
    /\ ret' = NoRet
    /\ phase' = "typing"
    /\ lineNo' = lineNo + 1
    /\ heap' = [stateAfter |-> ret.endState, endStateObject |-> 0]
    /\ UNCHANGED <<cfg, keys, nextId, memo, docNo, fmt>>

\* the caller keeps the end state of a line, to compare later states with it
Remember ==
    /\ phase = "tokenized"
    /\ memo # ret.endState
    /\ memo' = ret.endState
    /\ UNCHANGED <<cfg, state, line, phase, ret, lineNo, keys, nextId, ghost, docNo, heap, fmt>>

\* another document is tokenized from getInitialState()
Restart ==
    /\ phase = "tokenized"
    /\ docNo < MaxDocs
    /\ docNo' = docNo + 1
    /\ state' = InitialState
    /\ ghost' = [depth |-> 0, lastKind |-> "none", lastSig |-> "none"]
    /\ line' = <<>>
    /\ ret' = NoRet
    /\ phase' = "typing"
    /\ lineNo' = 1
    /\ heap' = NoCall
    /\ UNCHANGED <<cfg, keys, nextId, memo, fmt>>

Next ==
    \/ \E f \in cfg.alphabet : Type(f)
    \/ Tokenize
    \/ NextLine

Spec == Init /\ [][Next]_vars

(***************************************************************************)
(* Specifications over other alphabets: SpecPM types placeholder           *)
(* fragments in the placeholder-aware variant, SpecEq keeps end states     *)
(* and starts documents over, to compare states.                           *)
(***************************************************************************)
MaxKeysPM == 4
MaxKeysEq == 4

PmChars == {<<"{", "{", "a", "}", "}">>, <<"{", "{">>, <<"}", "}">>, <<"{">>, <<"}">>,
            <<"a">>, <<"\"">>, <<":">>, <<"/", "*">>, <<"*", "/">>}

InitPM == InitWith(PmChars, {"postman_json"}, MaxKeysPM)

SpecPM == InitPM /\ [][Next]_vars

EqChars == {<<"{">>, <<"[">>, <<"}">>, <<"]">>, <<":">>}

InitEq == InitWith(EqChars, {"json", "postman_json"}, MaxKeysEq)

NextEq ==
    \/ Next
    \/ Remember
    \/ Restart

SpecEq == InitEq /\ [][NextEq]_vars

\* SpecRaw types JSON tokens whole (a string literal is one fragment), with
\* and without placeholders, in both variants
MaxKeysRaw == 4

RawChars == {<<"{">>, <<"\"", "a", "\"">>, <<":">>, <<"1">>, <<" ">>,
             <<"/", "*", "*", "/">>, <<"{", "{", "a", "}", "}">>,
             <<"\"", "{", "{", "a", "}", "}", "\"">>}

InitRaw == InitWith(RawChars, {"json", "postman_json"}, MaxKeysRaw)

SpecRaw == InitRaw /\ [][Next]_vars

(***************************************************************************)
(* The formatter (formatJSON).  An edit is [offset, length, content]; a     *)
(* range is <<>> (undefined) or <<[offset, length]>>.  The scanner's        *)
(* current token is a record of Scan; getTokenOffset() is its tokenOffset   *)
(* and getTokenOffset() + getTokenLength() its pos.                         *)
(***************************************************************************)
\* isEOL(text, offset): '\r\n'.indexOf(text.charAt(offset)) !== -1, which is
\* true of the empty string charAt yields past the end
isEOL(text, offset) == At(text, offset) \in {"\r", "\n", ""}

RECURSIVE repeat(_, _)
repeat(s, count) == IF count <= 0 THEN <<>> ELSE s \o repeat(s, count - 1)

\* the columns of the leading white space of content (nChars)
RECURSIVE IndentChars(_, _, _)
IndentChars(content, tabSize, i) ==
    IF At(content, i) = " " THEN 1 + IndentChars(content, tabSize, i + 1)
    ELSE IF At(content, i) = "\t" THEN tabSize + IndentChars(content, tabSize, i + 1)
    ELSE 0

\* options.tabSize || 4: an omitted tabSize (undefined) is kept as 0, which
\* is falsy as undefined is
TabSizeOr4(options) == IF options.tabSize = 0 THEN 4 ELSE options.tabSize

\* an indent level that takes a tab for one column
computeIndentLevel_tabIsOne(content, options) ==
    IndentChars(content, 1, 0) \div TabSizeOr4(options)

computeIndentLevel(content, options) ==
    IndentChars(content, TabSizeOr4(options), 0) \div TabSizeOr4(options)

RECURSIVE getEOLFrom(_, _, _)
getEOLFrom(options, text, i) ==
    IF i >= Len(text) THEN (IF options.eol = <<>> THEN <<"\n">> ELSE options.eol)
    ELSE IF At(text, i) = "\r"
    THEN IF i + 1 < Len(text) /\ At(text, i + 1) = "\n" THEN <<"\r", "\n">> ELSE <<"\r">>
    ELSE IF At(text, i) = "\n" THEN <<"\n">>
    ELSE getEOLFrom(options, text, i + 1)

getEOL(options, text) == getEOLFrom(options, text, 0)

\* lines 44-47: the start of the line that holds rangeStart
RECURSIVE LineStart(_, _)
LineStart(documentText, formatTextStart) ==
    IF formatTextStart > 0 /\ ~isEOL(documentText, formatTextStart - 1)
    THEN LineStart(documentText, formatTextStart - 1)
    ELSE formatTextStart

\* lines 48-51: the end of the line that holds rangeEnd
RECURSIVE LineEnd(_, _)
LineEnd(documentText, endOffset) ==
    IF endOffset < Len(documentText) /\ ~isEOL(documentText, endOffset)
    THEN LineEnd(documentText, endOffset + 1)
    ELSE endOffset

\* lines 40-70: what formatJSON derives from its arguments before it scans
FormatRanged(documentText, options, rangeStart, rangeEnd, formatTextStart, formatText) ==
    [documentText |-> documentText,
     formatText |-> formatText,
     formatTextStart |-> formatTextStart,
     rangeStart |-> rangeStart,
     rangeEnd |-> rangeEnd,
     initialIndentLevel |-> computeIndentLevel(formatText, options),
     eol |-> getEOL(options, documentText),
     indentValue |-> IF options.insertSpaces THEN repeat(<<" ">>, TabSizeOr4(options))
                                             ELSE <<"\t">>]

FormatContext(documentText, range, options) ==
    IF range # <<>>
    THEN FormatRanged(documentText, options, range[1].offset,
                      range[1].offset + range[1].length,
                      LineStart(documentText, range[1].offset),
                      Substring(documentText, LineStart(documentText, range[1].offset),
                                LineEnd(documentText, range[1].offset + range[1].length)))
    ELSE [documentText |-> documentText,
          formatText |-> documentText,
          formatTextStart |-> 0,
          rangeStart |-> 0,
          rangeEnd |-> Len(documentText),
          initialIndentLevel |-> 0,
          eol |-> getEOL(options, documentText),
          indentValue |-> IF options.insertSpaces THEN repeat(<<" ">>, TabSizeOr4(options))
                                                  ELSE <<"\t">>]

\* a line break without indentation
newLineAndIndent_flat(c, indentLevel) == c.eol

newLineAndIndent(c, indentLevel) ==
    c.eol \o repeat(c.indentValue, c.initialIndentLevel + indentLevel)

\* scanNext: t is what scan() returned; the token after the trivia, whether a
\* line break was skipped, and hasError as line 85 sets it
RECURSIVE scanNextFrom(_, _, _)
scanNextFrom(text, t, lineBreak) ==
    IF t.kind \in {"Trivia", "LineBreakTrivia"}
    THEN scanNextFrom(text, Scan(text, t.pos), lineBreak \/ t.kind = "LineBreakTrivia")
    ELSE [tok |-> t, lineBreak |-> lineBreak,
          hasError |-> t.kind = "Unknown" \/ t.error # "None"]

scanNext(text, pos) == scanNextFrom(text, Scan(text, pos), FALSE)

Edit(offset, length, content) == [offset |-> offset, length |-> length, content |-> content]

\* an addEdit that leaves the range out of account
addEdit_anywhere(c, hasError, text, startOffset, endOffset, editOperations) ==
    IF ~hasError /\ Substring(c.documentText, startOffset, endOffset) # text
    THEN Append(editOperations, Edit(startOffset, endOffset - startOffset, text))
    ELSE editOperations

\* an addEdit that puts the new edit in front of the list
addEdit_unshift(c, hasError, text, startOffset, endOffset, editOperations) ==
    IF /\ ~hasError
       /\ startOffset < c.rangeEnd
       /\ endOffset > c.rangeStart
       /\ Substring(c.documentText, startOffset, endOffset) # text
    THEN <<Edit(startOffset, endOffset - startOffset, text)>> \o editOperations
    ELSE editOperations

addEdit(c, hasError, text, startOffset, endOffset, editOperations) ==
    IF /\ ~hasError
       /\ startOffset < c.rangeEnd
       /\ endOffset > c.rangeStart
       /\ Substring(c.documentText, startOffset, endOffset) # text
    THEN Append(editOperations, Edit(startOffset, endOffset - startOffset, text))
    ELSE editOperations

\* lines 112-121: the length of the text up to the first of ':' ',' ']' or EOL
RECURSIVE FmtDelimited(_, _)
FmtDelimited(textFromCurrentPosition, position) ==
    IF position = Len(textFromCurrentPosition) THEN position
    ELSE IF At(textFromCurrentPosition, position) \in {":", ",", "]"}
            \/ isEOL(<<At(textFromCurrentPosition, position)>>, 0)
    THEN position
    ELSE FmtDelimited(textFromCurrentPosition, position + 1)

\* lines 142-172: the inner `while (stack.length >= 0)`; first is firstPop
\* (<<>>: null)
RECURSIVE FmtPopPairs(_, _)
FmtPopPairs(stack, first) ==
    IF first = <<>>
    THEN IF stack = <<>> THEN [found |-> FALSE, stack |-> <<>>]
         ELSE FmtPopPairs(Front(stack), <<stack[Len(stack)]>>)
    ELSE IF stack = <<>> THEN [found |-> FALSE, stack |-> <<>>]
         ELSE IF first[1].startIndex = stack[Len(stack)].startIndex + 1
              THEN [found |-> TRUE, stack |-> Front(stack), popped |-> stack[Len(stack)]]
              ELSE FmtPopPairs(Front(stack), <<stack[Len(stack)]>>)

\* lines 134-175: the matched pairs of text, as [startIndex, endIndex]
RECURSIVE FmtMatch(_, _, _, _, _)
FmtMatched(text, startPosition, position, matched, r) ==
    IF r.found
    THEN FmtMatch(text, startPosition, position + 2, r.stack,
                  Append(matched, [startIndex |-> r.popped.startIndex,
                                   endIndex |-> startPosition + position + 1]))
    ELSE FmtMatch(text, startPosition, position + 1, r.stack, matched)

FmtMatch(text, startPosition, position, stack, matched) ==
    IF position >= Len(text) THEN matched
    ELSE IF At(text, position) = "{"
    THEN FmtMatch(text, startPosition, position + 1,
                  Append(stack, [startIndex |-> startPosition + position]), matched)
    ELSE IF /\ At(text, position) = "}"
            /\ position + 1 < Len(text)
            /\ At(text, position + 1) = "}"
    THEN FmtMatched(text, startPosition, position, matched, FmtPopPairs(stack, <<>>))
    ELSE FmtMatch(text, startPosition, position + 1, stack, matched)

\* Math.min / Math.max over the matched pairs
RECURSIVE minStartIndex(_)
minStartIndex(matched) ==
    IF Len(matched) = 1 THEN matched[1].startIndex
    ELSE IF matched[1].startIndex < minStartIndex(Tail(matched))
    THEN matched[1].startIndex ELSE minStartIndex(Tail(matched))

RECURSIVE maxEndIndex(_)
maxEndIndex(matched) ==
    IF Len(matched) = 1 THEN matched[1].endIndex
    ELSE IF matched[1].endIndex > maxEndIndex(Tail(matched))
    THEN matched[1].endIndex ELSE maxEndIndex(Tail(matched))

\* lines 177-184: <<>> is null / undefined
PostmanVariablePosition(startPosition, matched) ==
    IF matched = <<>> THEN <<>>
    ELSE IF minStartIndex(matched) # startPosition THEN <<>>
    ELSE <<[startIndex |-> startPosition, endIndex |-> maxEndIndex(matched)]>>

\* lines 109-127 on the text from startPosition on
PostmanVariableIn(startPosition, textFromCurrentPosition) ==
    IF FmtDelimited(textFromCurrentPosition, 0) = 0 THEN <<>>
    ELSE PostmanVariablePosition(
             startPosition,
             FmtMatch(Substring(textFromCurrentPosition, 0,
                                FmtDelimited(textFromCurrentPosition, 0)),
                      startPosition, 0, <<>>, <<>>))

\* getPostmanVariablePosition(), tok being the scanner's current token
getPostmanVariablePosition(c, tok) ==
    PostmanVariableIn(tok.tokenOffset + c.formatTextStart - 1,
                      SubstrFrom(c.formatText, tok.tokenOffset + c.formatTextStart - 1))

CommentKinds == {"LineCommentTrivia", "BlockCommentTrivia"}

\* lines 192-199: the placeholder hook; n is what scanNext returned for the
\* second token, position what getPostmanVariablePosition returned
FmtHooked(c, f, n, position) ==
    IF position # <<>>
    THEN [firstToken |-> "StringLiteral",
          firstTokenEnd |-> position[1].endIndex + 1,
          n |-> scanNext(c.formatText, Scan(c.formatText, position[1].endIndex).pos),
          pv |-> position]
    ELSE [firstToken |-> f.firstToken,
          firstTokenEnd |-> f.tok.pos + c.formatTextStart,
          n |-> n,
          pv |-> <<>>]

FmtHook(c, f, n) ==
    IF ~n.lineBreak /\ f.firstToken = "OpenBraceToken" /\ n.tok.kind = "OpenBraceToken"
    THEN FmtHooked(c, f, n, getPostmanVariablePosition(c, n.tok))
    ELSE [firstToken |-> f.firstToken,
          firstTokenEnd |-> f.tok.pos + c.formatTextStart,
          n |-> n,
          pv |-> <<>>]

\* lines 201-213: comments on the line of the first token
RECURSIVE FmtComments(_, _, _, _, _, _)
FmtComments(c, indentLevel, n, firstTokenEnd, replaceContent, editOperations) ==
    IF ~n.lineBreak /\ n.tok.kind \in CommentKinds
    THEN FmtComments(c, indentLevel, scanNext(c.formatText, n.tok.pos),
                     n.tok.pos + c.formatTextStart,
                     IF n.tok.kind = "LineCommentTrivia"
                     THEN newLineAndIndent(c, indentLevel) ELSE <<>>,
                     addEdit(c, n.hasError, <<" ">>, firstTokenEnd,
                             n.tok.tokenOffset + c.formatTextStart, editOperations))
    ELSE [n |-> n, firstTokenEnd |-> firstTokenEnd, replaceContent |-> replaceContent,
          editOperations |-> editOperations]

\* lines 226-281: the `else` branch, a second token that is no close token
FmtSwitchFirst(c, firstToken, secondToken, lineBreak, hasError, replaceContent, indentLevel) ==
    LET opens == firstToken \in {"OpenBracketToken", "OpenBraceToken"}
        level == IF opens THEN indentLevel + 1 ELSE indentLevel
        values == firstToken \in {"NullKeyword", "TrueKeyword", "FalseKeyword",
                                  "NumericLiteral", "CloseBraceToken", "CloseBracketToken"}
                  \/ (firstToken = "StringLiteral" /\ secondToken # "ColonToken")
        content ==
            CASE opens -> newLineAndIndent(c, level)
              [] firstToken \in {"CommaToken", "LineCommentTrivia"} -> newLineAndIndent(c, level)
              [] firstToken = "BlockCommentTrivia" ->
                    IF lineBreak THEN newLineAndIndent(c, level) ELSE <<" ">>
              [] firstToken = "ColonToken" -> <<" ">>
              [] firstToken = "StringLiteral" /\ secondToken = "ColonToken" -> <<>>
              [] values /\ secondToken \in CommentKinds -> <<" ">>
              [] OTHER -> replaceContent
    IN  [replaceContent |-> IF lineBreak /\ secondToken \in CommentKinds
                            THEN newLineAndIndent(c, level) ELSE content,
         indentLevel |-> level,
         hasError |-> \/ hasError
                      \/ values /\ secondToken \notin (CommentKinds \cup {"CommaToken", "EOF"})
                      \/ firstToken = "Unknown"]

\* a switch that steps back at every close token, after its own open token too
FmtSwitch_alwaysDedent(c, firstToken, secondToken, lineBreak, hasError, replaceContent, indentLevel) ==
    IF secondToken = "CloseBraceToken" \/ secondToken = "CloseBracketToken"
    THEN [replaceContent |-> newLineAndIndent(c, indentLevel - 1),
          indentLevel |-> indentLevel - 1, hasError |-> hasError]
    ELSE FmtSwitchFirst(c, firstToken, secondToken, lineBreak, hasError,
                        replaceContent, indentLevel)

\* lines 215-282: replaceContent, indentLevel and hasError for the pair
FmtSwitch(c, firstToken, secondToken, lineBreak, hasError, replaceContent, indentLevel) ==
    IF secondToken = "CloseBraceToken" \/ secondToken = "CloseBracketToken"
    THEN IF (secondToken = "CloseBraceToken" /\ firstToken # "OpenBraceToken")
            \/ (secondToken = "CloseBracketToken" /\ firstToken # "OpenBracketToken")
         THEN [replaceContent |-> newLineAndIndent(c, indentLevel - 1),
               indentLevel |-> indentLevel - 1, hasError |-> hasError]
         ELSE [replaceContent |-> replaceContent, indentLevel |-> indentLevel,
               hasError |-> hasError]
    ELSE FmtSwitchFirst(c, firstToken, secondToken, lineBreak, hasError,
                        replaceContent, indentLevel)

\* lines 283-285: the edit between the two tokens; the second token becomes
\* the first.  h is the hook's result, k the comment loop's, w the switch's
FmtEmit(c, f, h, k, w, editOperations) ==
    [tok |-> k.n.tok,
     firstToken |-> k.n.tok.kind,
     hasError |-> w.hasError,
     indentLevel |-> w.indentLevel,
     editOperations |-> editOperations,
     steps |-> Append(f.steps,
                      [firstToken |-> h.firstToken, secondToken |-> k.n.tok.kind,
                       pv |-> h.pv,
                       commented |-> k.firstTokenEnd # h.firstTokenEnd,
                       indentLevel |-> w.indentLevel,
                       replaceContent |-> w.replaceContent,
                       firstTokenEnd |-> k.firstTokenEnd,
                       secondTokenStart |-> k.n.tok.tokenOffset + c.formatTextStart,
                       resume |-> h.n.tok.tokenOffset + c.formatTextStart,
                       flagged |-> w.hasError /\ ~k.n.hasError,
                       hasError |-> w.hasError,
                       before |-> Len(f.editOperations),
                       after |-> Len(editOperations)])]

FmtSwitched(c, f, h, k, w) ==
    FmtEmit(c, f, h, k, w,
            addEdit(c, w.hasError, w.replaceContent, k.firstTokenEnd,
                    k.n.tok.tokenOffset + c.formatTextStart, k.editOperations))

FmtCommented(c, f, h, k) ==
    FmtSwitched(c, f, h, k,
                FmtSwitch(c, h.firstToken, k.n.tok.kind, k.n.lineBreak, k.n.hasError,
                          k.replaceContent, f.indentLevel))

FmtHookDone(c, f, h) ==
    FmtCommented(c, f, h,
                 FmtComments(c, f.indentLevel, h.n, h.firstTokenEnd, <<>>, f.editOperations))

\* one iteration of `while (firstToken !== json.SyntaxKind.EOF)`
FmtStep(c, f) == FmtHookDone(c, f, FmtHook(c, f, scanNext(c.formatText, f.tok.pos)))

RECURSIVE FmtLoop(_, _)
FmtLoop(c, f) == IF f.firstToken = "EOF" THEN f ELSE FmtLoop(c, FmtStep(c, f))

\* lines 100-106: the first token and the edit of the initial indent
FmtFirst(c, n) ==
    [tok |-> n.tok,
     firstToken |-> n.tok.kind,
     hasError |-> n.hasError,
     indentLevel |-> 0,
     editOperations |-> IF n.tok.kind # "EOF"
                        THEN addEdit(c, n.hasError, repeat(c.indentValue, c.initialIndentLevel),
                                     c.formatTextStart, n.tok.tokenOffset + c.formatTextStart,
                                     <<>>)
                        ELSE <<>>,
     steps |-> <<>>]

FormatScan(c) == FmtLoop(c, FmtFirst(c, scanNext(c.formatText, 0)))

\* what formatJSON returns, with the history of the loop and the context
FormatResult(c, f) ==
    [edits |-> f.editOperations, steps |-> f.steps,
     rangeStart |-> c.rangeStart, rangeEnd |-> c.rangeEnd,
     formatTextStart |-> c.formatTextStart,
     eol |-> c.eol, initialIndentLevel |-> c.initialIndentLevel,
     formatText |-> c.formatText]

FormatWith(c) == FormatResult(c, FormatScan(c))

formatJSON(documentText, range, options) ==
    FormatWith(FormatContext(documentText, range, options))

(***************************************************************************)
(* The formatter at work: a document is typed as fragments, formatted       *)
(* (format(d, r, o): whole or over a range), and, after a whole-document    *)
(* format, the edits are applied and the result is formatted again.         *)
(***************************************************************************)
\* fragments typed into a document to format
MaxKeysFmt == 5
\* characters of a document to format
MaxDocLen == 11

NoFormat == [edits |-> <<>>, steps |-> <<>>, rangeStart |-> 0, rangeEnd |-> 0,
             formatTextStart |-> 0, eol |-> <<>>, initialIndentLevel |-> 0,
             formatText |-> <<>>]

\* the options format() hands to formatJSON (lines 17-21) for the o it is given
FormatOptions == {[tabSize |-> 1, insertSpaces |-> TRUE, eol |-> <<"\n">>],
                  [tabSize |-> 2, insertSpaces |-> FALSE, eol |-> <<"\n">>]}

\* the ranges format() can hand to formatJSON for a document (lines 12-16)
Ranges(documentText) ==
    UNION {{<<[offset |-> o, length |-> e - o]>> : e \in o..Len(documentText)} :
               o \in 0..Len(documentText)}

\* the text after the edits i..Len(edits) are applied, last edit first
RECURSIVE ApplyEdits(_, _, _)
ApplyEdits(text, edits, i) ==
    IF i > Len(edits) THEN text
    ELSE Substring(ApplyEdits(text, edits, i + 1), 0, edits[i].offset)
         \o edits[i].content
         \o SubstrFrom(ApplyEdits(text, edits, i + 1), edits[i].offset + edits[i].length)

InitFmt(seeds, alphabet, budget, ranged) ==
    /\ cfg = [comments |-> FALSE, languageId |-> "json", alphabet |-> {}, budget |-> 0]
    /\ state = InitialState
    /\ line = <<>>
    /\ phase = "formatter"
    /\ ret = NoRet
    /\ lineNo = 1
    /\ keys = 0
    /\ nextId = 0
    /\ ghost = [depth |-> 0, lastKind |-> "none", lastSig |-> "none"]
    /\ memo = InitialState
    /\ docNo = 1
    /\ heap = NoCall
    /\ fmt \in [text : seeds, phase : {"typing"}, keys : {0}, alphabet : {alphabet},
                budget : {budget}, ranged : {ranged}, range : {<<>>},
                options : FormatOptions, result : {NoFormat}, first : {NoFormat},
                original : {<<>>}]

FmtType(f) ==
    /\ fmt.phase = "typing"
    /\ fmt.keys < fmt.budget
    /\ Len(fmt.text) + Len(f) <= MaxDocLen
    /\ fmt' = [fmt EXCEPT !.text = fmt.text \o f, !.keys = fmt.keys + 1]
    /\ UNCHANGED tokVars

Format(r) ==
    /\ fmt.phase = "typing"
    /\ fmt' = [fmt EXCEPT !.phase = "formatted",
                          !.range = r,
                          !.result = formatJSON(fmt.text, r, fmt.options)]
    /\ UNCHANGED tokVars

FormatAgain ==
    /\ fmt.phase = "formatted"
    /\ fmt.range = <<>>
    /\ fmt' = [fmt EXCEPT !.phase = "reformatted",
                          !.original = fmt.text,
                          !.text = ApplyEdits(fmt.text, fmt.result.edits, 1),
                          !.first = fmt.result,
                          !.result = formatJSON(ApplyEdits(fmt.text, fmt.result.edits, 1),
                                                <<>>, fmt.options)]
    /\ UNCHANGED tokVars

NextFmt ==
    \/ \E f \in fmt.alphabet : FmtType(f)
    \/ \E r \in (IF fmt.ranged THEN Ranges(fmt.text) \cup {<<>>} ELSE {<<>>}) : Format(r)
    \/ FormatAgain

\* whole documents: braces, brackets, quotes, a placeholder, a line break and
\* white space, started empty or from the malformed '{"a":1 2}'
MalformedExample == <<"{", "\"", "a", "\"", ":", "1", " ", "2", "}">>

FmtChars == {<<"{">>, <<"[">>, <<"\"">>, <<":">>, <<"1">>, <<" ">>, <<"\n">>,
             <<"{", "{", "a", "}", "}">>}

InitFormat == InitFmt({<<>>, MalformedExample}, FmtChars, MaxKeysFmt, FALSE)

SpecFmt == InitFormat /\ [][NextFmt]_vars

\* fragments typed into a document of which a range is formatted
MaxKeysRange == 4

\* documents of several lines, formatted whole or over a range: an open
\* brace, white space, line breaks, a block comment and a placeholder
RangeChars == {<<"{">>, <<" ">>, <<"\n">>, <<"/", "*", "*", "/">>,
               <<"{", "{", "a", "}", "}">>}

InitRange == InitFmt({<<>>}, RangeChars, MaxKeysRange, TRUE)

SpecRange == InitRange /\ [][NextFmt]_vars

(***************************************************************************)
(* The entry point format(d, r, o) with the caller's options o: <<>> when  *)
(* o is absent, else <<[tabSize, insertSpaces, eol]>> where a field is     *)
(* <<>> when omitted and <<value>> when given.                             *)
(***************************************************************************)
\* lines 17-21: the options handed to formatJSON.  An omitted tabSize or
\* insertSpaces arrives as undefined, kept here as 0 and FALSE: formatJSON
\* only tests them for truthiness (lines 66-67, 301)
formatOptions(o) ==
    [tabSize |-> IF o # <<>>
                 THEN (IF o[1].tabSize = <<>> THEN 0 ELSE o[1].tabSize[1])
                 ELSE 4,
     insertSpaces |-> IF o # <<>>
                      THEN (IF o[1].insertSpaces = <<>> THEN FALSE ELSE o[1].insertSpaces[1])
                      ELSE TRUE,
     eol |-> <<"\n">>]

\* fragments typed into a document formatted through the entry point
MaxKeysEntry == 4

\* the o of the callers: absent, complete, and with one option omitted
CallerOptions ==
    {<<>>,
     <<[tabSize |-> <<2>>, insertSpaces |-> <<TRUE>>, eol |-> <<>>]>>,
     <<[tabSize |-> <<2>>, insertSpaces |-> <<>>, eol |-> <<>>]>>,
     <<[tabSize |-> <<>>, insertSpaces |-> <<TRUE>>, eol |-> <<"\r", "\n">>]>>}

WellFormedExample ==
    <<"{", "\"", "a", "\"", ":", "1", ",", "\"", "b", "\"", ":", "2", "}">>

EntryChars == {<<"{">>, <<"[">>, <<"1">>, <<" ">>, <<"\n">>, <<"\r">>}

InitEntry ==
    /\ cfg = [comments |-> FALSE, languageId |-> "json", alphabet |-> {}, budget |-> 0]
    /\ state = InitialState
    /\ line = <<>>
    /\ phase = "formatter"
    /\ ret = NoRet
    /\ lineNo = 1
    /\ keys = 0
    /\ nextId = 0
    /\ ghost = [depth |-> 0, lastKind |-> "none", lastSig |-> "none"]
    /\ memo = InitialState
    /\ docNo = 1
    /\ heap = NoCall
    /\ fmt \in [text : {<<>>, WellFormedExample}, phase : {"typing"}, keys : {0},
                alphabet : {EntryChars}, budget : {MaxKeysEntry}, ranged : {FALSE},
                range : {<<>>}, o : CallerOptions, options : {formatOptions(<<>>)},
                result : {NoFormat}, first : {NoFormat}, original : {<<>>}]

\* format(d, undefined, o)
FormatEntry ==
    /\ fmt.phase = "typing"
    /\ fmt' = [fmt EXCEPT !.phase = "formatted",
                          !.options = formatOptions(fmt.o),
                          !.result = formatJSON(fmt.text, <<>>, formatOptions(fmt.o))]
    /\ UNCHANGED tokVars

NextEntry ==
    \/ \E f \in fmt.alphabet : FmtType(f)
    \/ FormatEntry
    \/ FormatAgain

SpecEntry == InitEntry /\ [][NextEntry]_vars

(***************************************************************************)
(* The tokenizer and the formatter on the same text: a single line is      *)
(* typed, tokenized from the initial state by the placeholder-aware        *)
(* variant, and formatted as a whole document.                             *)
(***************************************************************************)
\* fragments typed into the line both are run on
MaxKeysBoth == 4

\* characters of that line
MaxLenBoth == 9

BothChars == {<<"{">>, <<"{", "{">>, <<"}", "}">>, <<"a">>, <<" ">>, <<":">>,
              <<"/", "*">>, <<"{", "{", "a", "}", "}">>}

InitBoth == InitWith(BothChars, {"postman_json"}, MaxKeysBoth)

TypeBoth(f) ==
    /\ phase = "typing"
    /\ keys < cfg.budget
    /\ Len(line) + Len(f) <= MaxLenBoth
    /\ line' = line \o f
    /\ keys' = keys + 1
    /\ UNCHANGED <<cfg, state, phase, ret, lineNo, nextId, ghost, memo, docNo, heap, fmt>>

\* format(d, undefined, o) on the document that holds the tokenized line
FormatLine(o) ==
    /\ phase = "tokenized"
    /\ fmt = NoFmt
    /\ fmt' = [phase |-> "formatted", text |-> line, range |-> <<>>, options |-> o,
               result |-> formatJSON(line, <<>>, o)]
    /\ UNCHANGED tokVars

NextBoth ==
    \/ \E f \in cfg.alphabet : TypeBoth(f)
    \/ Tokenize
    \/ \E o \in FormatOptions : FormatLine(o)

SpecBoth == InitBoth /\ [][NextBoth]_vars

(***************************************************************************)
(* createPostmanVariableScanner on its own: a text is typed and scanned    *)
(* for placeholders, as the interior of a string or as top-level text, at  *)
(* an offset.  ret.steps holds the arguments of the call.                  *)
(***************************************************************************)
\* fragments typed into the text scanned for placeholders
MaxKeysMatch == 5

MatchChars == {<<"{">>, <<"}">>, <<"{", "{">>, <<"}", "}">>, <<"a">>}

InitMatch == InitWith(MatchChars, {"postman_json"}, MaxKeysMatch)

ScanVariables(offset, inValue, inString) ==
    /\ phase = "typing"
    /\ ret' = [NoRet EXCEPT
                 !.tokens = createPostmanVariableScanner(line, offset, inValue, inString),
                 !.steps = <<[offset |-> offset, inValue |-> inValue,
                              inString |-> inString]>>]
    /\ phase' = "scanned"
    /\ UNCHANGED <<cfg, state, line, lineNo, keys, nextId, ghost, memo, docNo, heap, fmt>>

NextMatch ==
    \/ \E f \in cfg.alphabet : TypeBoth(f)
    \/ \E offset \in {0, 1} : \E inValue \in BOOLEAN : \E inString \in BOOLEAN :
           ScanVariables(offset, inValue, inString)

SpecMatch == InitMatch /\ [][NextMatch]_vars

(***************************************************************************)
(* Documents of containers: brackets, braces, a key, a number, commas and  *)
(* blanks are typed, from nothing or after '[[1],', and the document is    *)
(* formatted as a whole.                                                   *)
(***************************************************************************)
\* fragments typed into a document of containers
MaxKeysWell == 4

NestedExample == <<"[", "[", "1", "]", ",">>

WellChars == {<<"[">>, <<"]">>, <<"{">>, <<"}">>, <<"\"", "a", "\"", ":">>, <<"1">>,
              <<",">>, <<" ">>}

InitWell == InitFmt({<<>>, NestedExample}, WellChars, MaxKeysWell, FALSE)

SpecWell == InitWell /\ [][NextFmt]_vars

(***************************************************************************)
(* Lines of blanks, tabs and a number, ended by '\n' or '\r': a range of   *)
(* the document is formatted.                                              *)
(***************************************************************************)
\* fragments typed into a document of indented lines
MaxKeysLines == 4

LineChars == {<<" ">>, <<"\t">>, <<"\n">>, <<"\r">>, <<"1">>}

InitLines == InitFmt({<<>>}, LineChars, MaxKeysLines, TRUE)

SpecLines == InitLines /\ [][NextFmt]_vars

(***************************************************************************)
(* JSONWorker._getModifiedTextDocument: the document handed to validation  *)
(* in the placeholder-aware variant.  The content of the model is typed as *)
(* fragments and then modified; ret.tokens holds the content of the        *)
(* document created (lines 613-615) and ret.steps one record for each line *)
(* of the forEach.                                                         *)
(***************************************************************************)
\* fragments typed into the content of a model
MaxKeysWorker == 4
\* characters of the content of a model
MaxContentLen == 12

\* content.indexOf('\r\n') > -1 ? '\r\n' : '\n'
ContentEOL(content) ==
    IF \E i \in 0..(Len(content) - 2) : Substring(content, i, i + 2) = <<"\r", "\n">>
    THEN <<"\r", "\n">> ELSE <<"\n">>

\* content.split(eol), from position i on; cur is the line begun
RECURSIVE Split(_, _, _, _)
Split(content, eol, i, cur) ==
    IF i >= Len(content) THEN <<cur>>
    ELSE IF Substring(content, i, i + Len(eol)) = eol
    THEN <<cur>> \o Split(content, eol, i + Len(eol), <<>>)
    ELSE Split(content, eol, i + 1, Append(cur, content[i + 1]))

\* lines.join(eol)
RECURSIVE Join(_, _)
Join(lines, eol) ==
    IF lines = <<>> THEN <<>>
    ELSE IF Len(lines) = 1 THEN lines[1]
    ELSE lines[1] \o eol \o Join(Tail(lines), eol)

\* content && content.trim() !== ''
NotBlank(content) ==
    \E i \in 1..Len(content) : content[i] \notin {" ", "\t", "\r", "\n"}

\* returnObj.tokens.filter((token) => token.scopes === TOKEN_POSTMAN_VARIABLE)
postmanVariables(tokens) == SelectSeq(tokens, LAMBDA token : token.scopes = TOKEN_POSTMAN_VARIABLE)

\* a template that puts the closing quote before the last '}'
WrapVariable_quoteInside(lineToBeReplaced, variable, offset) ==
    Substring(lineToBeReplaced, 0, variable.startIndex + offset)
        \o <<"\"">>
        \o Substring(lineToBeReplaced, variable.startIndex + offset, variable.endIndex + offset)
        \o <<"\"">>
        \o SubstrFrom(lineToBeReplaced, variable.endIndex + offset)

\* lines 601-607: the template string
WrapVariable(lineToBeReplaced, variable, offset) ==
    Substring(lineToBeReplaced, 0, variable.startIndex + offset)
        \o <<"\"">>
        \o Substring(lineToBeReplaced, variable.startIndex + offset,
                     variable.endIndex + offset + 1)
        \o <<"\"">>
        \o SubstrFrom(lineToBeReplaced, variable.endIndex + offset + 1)

\* lines 591-610: the `for` loop; wrapped holds the indices not skipped
RECURSIVE WrapLoop(_, _, _, _, _, _)
WrapLoop(variables, i, offset, prevVariable, lineToBeReplaced, wrapped) ==
    IF i > Len(variables) THEN [line |-> lineToBeReplaced, wrapped |-> wrapped]
    ELSE IF i > 1 /\ variables[i].startIndex < prevVariable.endIndex
    THEN WrapLoop(variables, i + 1, offset, prevVariable, lineToBeReplaced, wrapped)
    ELSE WrapLoop(variables, i + 1, offset + 2, variables[i],
                  WrapVariable(lineToBeReplaced, variables[i], offset),
                  Append(wrapped, i))

\* lines 584-612: the forEach from line i on; state and nextId are threaded,
\* done holds the records of the lines before i
RECURSIVE ModifyLines(_, _, _, _, _)
ModifiedLine(lines, i, state_, nextId_, done, returnObj, w) ==
    ModifyLines(lines, i + 1, returnObj.endState, returnObj.nextId,
                Append(done, [line |-> lines[i], state |-> state_, nextId |-> nextId_,
                              endState |-> returnObj.endState,
                              postmanVariables |-> postmanVariables(returnObj.tokens),
                              wrapped |-> w.wrapped, modified |-> w.line]))

\* lines 590-611: `if (postmanVariables.length)`, prevVariable starts as the
\* first placeholder token
TokenizedLine(lines, i, state_, nextId_, done, returnObj) ==
    ModifiedLine(lines, i, state_, nextId_, done, returnObj,
                 IF postmanVariables(returnObj.tokens) = <<>>
                 THEN [line |-> lines[i], wrapped |-> <<>>]
                 ELSE WrapLoop(postmanVariables(returnObj.tokens), 1, 0,
                               postmanVariables(returnObj.tokens)[1], lines[i], <<>>))

ModifyLines(lines, i, state_, nextId_, done) ==
    IF i > Len(lines) THEN done
    ELSE TokenizedLine(lines, i, state_, nextId_, done,
                       tokenize(TRUE, lines[i], state_, 0, "postman_json", nextId_))

\* lines 578-612: the records of the lines; state starts as
\* new JSONState(null, null, false, null)
getModifiedTextDocument(content) ==
    IF NotBlank(content)
    THEN ModifyLines(Split(content, ContentEOL(content), 0, <<>>), 1, InitialState, 0, <<>>)
    ELSE <<>>

WorkerChars == {<<"{", "{", "a", "}", "}">>, <<"{">>, <<"}">>, <<"\"">>, <<"/", "*">>,
                <<"*", "/">>, <<":">>, <<"\n">>, <<"\r", "\n">>}

InitWorker ==
    /\ InitWith(WorkerChars, {"postman_json"}, MaxKeysWorker)
    /\ cfg.comments

\* model.getValue() grows by a fragment; line holds the content of the model
TypeContent(f) ==
    /\ phase = "typing"
    /\ keys < cfg.budget
    /\ Len(line) + Len(f) <= MaxContentLen
    /\ line' = line \o f
    /\ keys' = keys + 1
    /\ UNCHANGED <<cfg, state, phase, ret, lineNo, nextId, ghost, memo, docNo, heap, fmt>>

GetModifiedTextDocument ==
    /\ phase = "typing"
    /\ phase' = "modified"
    /\ \E records \in {getModifiedTextDocument(line)} :
           ret' = [NoRet EXCEPT
                     !.tokens = IF NotBlank(line)
                                THEN Join([k \in 1..Len(records) |-> records[k].modified],
                                          ContentEOL(line))
                                ELSE line,
                     !.steps = records]
    /\ UNCHANGED <<cfg, state, line, lineNo, keys, nextId, ghost, memo, docNo, heap, fmt>>

NextWorker ==
    \/ \E f \in cfg.alphabet : TypeContent(f)
    \/ GetModifiedTextDocument

SpecWorker == InitWorker /\ [][NextWorker]_vars

(***************************************************************************)
(* LanguageServiceDefaultsImpl.setInstanceSettings (monaco.contribution):  *)
(* heap holds _instanceSettings.settings, a map from URI to <<>> (no       *)
(* property) or <<[setting, by]>>, by being the number of the call that    *)
(* stored it; the disposables handed out, in order of the calls, each with *)
(* the uri of its closure and the number of times it was disposed; and the *)
(* number of times _onDidChange fired.                                     *)
(***************************************************************************)
\* calls of setInstanceSettings
MaxHandles == 3
\* calls of dispose
MaxDisposals == 3

URIs == {"file:///a.json", "file:///b.json"}

\* instanceSettingsPostmanJsonDefault: { settings: {} }
InitSettings ==
    /\ cfg = [comments |-> FALSE, languageId |-> "postman_json", alphabet |-> {}, budget |-> 0]
    /\ state = InitialState
    /\ line = <<>>
    /\ phase = "settings"
    /\ ret = NoRet
    /\ lineNo = 1
    /\ keys = 0
    /\ nextId = 0
    /\ ghost = [depth |-> 0, lastKind |-> "none", lastSig |-> "none"]
    /\ memo = InitialState
    /\ docNo = 1
    /\ heap = [settings |-> [u \in URIs |-> <<>>], handles |-> <<>>, fired |-> 0,
               disposals |-> 0]
    /\ fmt = NoFmt

\* lines 207-212 and the object of line 213
setInstanceSettings(uri, setting) ==
    /\ phase = "settings"
    /\ Len(heap.handles) < MaxHandles
    /\ heap' = [heap EXCEPT
                  !.settings[uri] = <<[setting |-> setting, by |-> Len(heap.handles) + 1]>>,
                  !.handles = Append(heap.handles, [uri |-> uri, disposed |-> 0]),
                  !.fired = heap.fired + 1]
    /\ UNCHANGED <<cfg, state, line, phase, ret, lineNo, keys, nextId, ghost, memo, docNo, fmt>>

\* lines 214-219: dispose() of the disposable that call h returned
dispose(h) ==
    /\ phase = "settings"
    /\ heap.disposals < MaxDisposals
    /\ heap' = [heap EXCEPT
                  !.settings[heap.handles[h].uri] = <<>>,
                  !.handles[h].disposed = heap.handles[h].disposed + 1,
                  !.fired = heap.fired + 1,
                  !.disposals = heap.disposals + 1]
    /\ UNCHANGED <<cfg, state, line, phase, ret, lineNo, keys, nextId, ghost, memo, docNo, fmt>>

NextSettings ==
    \/ \E uri \in URIs : \E setting \in {[validate |-> TRUE], [validate |-> FALSE]} :
           setInstanceSettings(uri, setting)
    \/ \E h \in 1..Len(heap.handles) : dispose(h)

SpecSettings == InitSettings /\ [][NextSettings]_vars

(***************************************************************************)
(* Properties.                                                             *)
(***************************************************************************)
StackTypes(parents) == [i \in 1..Len(parents) |-> parents[i].type]

\* structural equality of two states: what equality is specified to be
StructurallyEqual(a, b) ==
    /\ a.scanError = b.scanError
    /\ a.lastWasColon = b.lastWasColon
    /\ StackTypes(a.parents) = StackTypes(b.parents)

\* the states a caller holds once a line is tokenized
HeldStates == IF phase = "tokenized" THEN {memo, state, ret.endState} ELSE {memo, state}

\* C1: JSONState.equals(a, b) is true only if a and b have equal scanError,
\* equal lastWasColon and parent stacks of the same depth with the same
\* sequence of Object/Array markers.
C1_EqualsOnlyIfStructurallyEqual ==
    \A a \in HeldStates : \A b \in HeldStates :
        JSONState_equals(a, b) => StructurallyEqual(a, b)

\* C2: equality of reachable states is reflexive and transitive.
C2_EqualsIsEquivalence ==
    /\ \A a \in HeldStates : JSONState_equals(a, a)
    /\ \A a \in HeldStates : \A b \in HeldStates : \A c \in HeldStates :
          JSONState_equals(a, b) /\ JSONState_equals(b, c) => JSONState_equals(a, c)

\* C3: at the end of every line the depth of the end state's parent stack
\* is the nesting depth of the text tokenized so far (open braces and
\* brackets not yet closed, the braces of recognised placeholders apart).
C3_StackDepthIsNestingDepth ==
    phase = "tokenized" => Len(ret.endState.parents) = DepthAfterLine

\* the inserted characters of the current line, and the position in the
\* typed line of the scanner token of a step (the first token starts at 0)
Inserted == Len(InsertedCharacters(state))

LinePos(step) == IF step.from = 0 THEN 0 ELSE step.from - Inserted

Tokenized == phase = "tokenized"

StepIds == IF Tokenized THEN 1..Len(ret.steps) ELSE {}

TokenIds == IF Tokenized THEN 1..Len(ret.tokens) ELSE {}

IsNameChar(c) == c \notin {"", "{", "}", ",", ":", "]"}

RECURSIVE NameEnd(_, _)
NameEnd(text, p) == IF IsNameChar(At(text, p)) THEN NameEnd(text, p + 1) ELSE p

\* text holds '{{name}}' from position s on
PlaceholderAt(text, s) ==
    /\ At(text, s) = "{"
    /\ At(text, s + 1) = "{"
    /\ At(text, NameEnd(text, s + 2)) = "}"
    /\ At(text, NameEnd(text, s + 2) + 1) = "}"

PlaceholderEnd(text, s) == NameEnd(text, s + 2) + 1

\* step i scans the first brace of an unquoted '{{name}}' that is a whole
\* property value: it follows a colon and nothing but a separator follows it
WholeValuePlaceholder(i) ==
    /\ ret.steps[i].kind = "OpenBraceToken"
    /\ ret.steps[i].lastWasColon
    /\ PlaceholderAt(line, LinePos(ret.steps[i]))
    /\ At(line, PlaceholderEnd(line, LinePos(ret.steps[i])) + 1) \in {"", ",", " ", "}"}

\* C4: for an unquoted '{{name}}' standing as a whole property value, exactly
\* one postman.variable token is emitted, from its first '{' to its last '}',
\* and no object-delimiter token for any of its four braces.
C4_WholeValuePlaceholderIsOneToken ==
    \A i \in StepIds :
        (cfg.languageId = "postman_json" /\ WholeValuePlaceholder(i)) =>
            LET s == LinePos(ret.steps[i])
                e == PlaceholderEnd(line, s)
            IN  /\ Cardinality({j \in TokenIds :
                                   /\ ret.tokens[j].scopes = TOKEN_POSTMAN_VARIABLE
                                   /\ ret.tokens[j].startIndex = s
                                   /\ ret.tokens[j].endIndex = e}) = 1
                /\ \A j \in TokenIds :
                       ret.tokens[j].scopes = TOKEN_DELIM_OBJECT =>
                           ret.tokens[j].startIndex \notin s..e

\* the interior of the string literal of step i, in positions of the typed
\* line: from after the opening quote to before the closing quote
InteriorStart(i) == ret.steps[i].from + 1 - Inserted

InteriorEnd(i) == ret.steps[i].to - 2 - Inserted

\* token k of the tokens toks spliced for a literal ends at its endIndex, the
\* filler after the last placeholder at the end of the interior
SplicedEnd(toks, k, interiorEnd) ==
    IF toks[k].endIndex = NoEnd THEN interiorEnd ELSE toks[k].endIndex

IsFiller(tok) == tok.scopes \in {TOKEN_VALUE_STRING, TOKEN_PROPERTY_NAME}

\* text[s..e] is one '{{...}}'
IsPlaceholderText(text, s, e) ==
    /\ e >= s + 3
    /\ At(text, s) = "{" /\ At(text, s + 1) = "{"
    /\ At(text, e - 1) = "}" /\ At(text, e) = "}"

\* C5: the tokens spliced after a terminated string literal that holds a
\* placeholder are in left-to-right order and tile the interior of the
\* literal: each placeholder-in-string token lies on one '{{...}}', each
\* filler has the literal's own kind, and there is neither overlap nor gap.
C5_SplicedTokensTileInterior ==
    \A i \in StepIds :
        LET st == ret.steps[i]
            toks == st.inString
        IN  (st.kind = "StringLiteral" /\ st.error = "None" /\ toks # <<>>) =>
                /\ toks[1].startIndex = InteriorStart(i)
                /\ SplicedEnd(toks, Len(toks), InteriorEnd(i)) = InteriorEnd(i)
                /\ \A k \in 1..(Len(toks) - 1) :
                       toks[k + 1].startIndex = SplicedEnd(toks, k, InteriorEnd(i)) + 1
                /\ \A k \in 1..Len(toks) :
                       \/ /\ toks[k].scopes = TOKEN_POSTMAN_VARIABLE_IN_STRING
                          /\ IsPlaceholderText(line, toks[k].startIndex, toks[k].endIndex)
                       \/ /\ toks[k].scopes = st.type
                          /\ IsFiller(toks[k])
                          /\ toks[k].startIndex <= SplicedEnd(toks, k, InteriorEnd(i)) + 1

\* C6: on the top-level path a match is accepted only if it starts at the
\* first of the two open braces that triggered the detection.
C6_TopLevelMatchIsAnchored ==
    \A i \in StepIds :
        ret.steps[i].detect = "matched" =>
            ret.steps[i].spliced[1].startIndex = ret.steps[i].offset - 1

\* C7: when detection after two open braces finds no match, both braces are
\* emitted as delimiter.bracket.json tokens, two Object frames stay pushed
\* and no error is raised.
C7_FailedDetectionEmitsBraces ==
    \A i \in StepIds :
        ret.steps[i].detect = "failed" =>
            /\ i > 1
            /\ ret.steps[i].type = TOKEN_DELIM_OBJECT
            /\ ret.steps[i - 1].type = TOKEN_DELIM_OBJECT
            /\ ~ret.steps[i].skip /\ ~ret.steps[i - 1].skip
            /\ Len(ret.steps[i].after) = Len(ret.steps[i - 1].parents) + 2
            /\ ret.steps[i].after[1].type = "Object"
            /\ ret.steps[i].after[2].type = "Object"
            /\ ~ret.threw

\* C8: on a line that got a synthetic prefix every token starts at its
\* position in the typed line: scanner tokens at the scanner offset less the
\* inserted characters (the first at 0), placeholder tokens on their '{{'.
C8_OffsetsAreLinePositions ==
    (Tokenized /\ Inserted > 0) =>
        /\ \A i \in StepIds : ret.steps[i].offset = LinePos(ret.steps[i])
        /\ \A j \in TokenIds :
               ret.tokens[j].scopes \in {TOKEN_POSTMAN_VARIABLE, TOKEN_POSTMAN_VARIABLE_IN_STRING}
                   => IsPlaceholderText(line, ret.tokens[j].startIndex, ret.tokens[j].endIndex)

\* the kind of the last token before step i that is not of a skipped kind
KindBefore(i, skipped, before) == LastKind(ret.steps, i - 1, skipped, before)

TopIsArray(parents) == parents # <<>> /\ parents[1].type = "Array"

\* C9, as claimed: a string literal is a property name exactly when the last
\* non-trivia token before it was not a colon and the top of the parent stack
\* is not an Array.
C9_PropertyNameIffNoColonBefore ==
    \A i \in StepIds :
        ret.steps[i].kind = "StringLiteral" =>
            ((ret.steps[i].type = TOKEN_PROPERTY_NAME) <=>
                 (/\ KindBefore(i, TriviaKinds, ghost.lastKind) # "ColonToken"
                  /\ ~TopIsArray(ret.steps[i].parents)))

\* C9, amended: a string literal is a property name exactly when the last
\* token before it that is neither trivia nor an Unknown token was not a
\* colon and the top of the parent stack is not an Array; else a string value.
C9_PropertyNameIffNoColonBeforeUnknowns ==
    \A i \in StepIds :
        ret.steps[i].kind = "StringLiteral" =>
            /\ ret.steps[i].type \in {TOKEN_PROPERTY_NAME, TOKEN_VALUE_STRING}
            /\ (ret.steps[i].type = TOKEN_PROPERTY_NAME) <=>
                 (/\ KindBefore(i, TriviaKinds \cup {"Unknown"}, ghost.lastSig) # "ColonToken"
                  /\ ~TopIsArray(ret.steps[i].parents))

\* a string literal after a colon and an Unknown token, in an object: a value
C9_Witness ==
    \E i \in StepIds :
        /\ ret.steps[i].kind = "StringLiteral"
        /\ ret.steps[i].type = TOKEN_VALUE_STRING
        /\ KindBefore(i, TriviaKinds, ghost.lastKind) = "Unknown"
        /\ ~TopIsArray(ret.steps[i].parents)

IsPlaceholderToken(tok) ==
    tok.scopes \in {TOKEN_POSTMAN_VARIABLE, TOKEN_POSTMAN_VARIABLE_IN_STRING}

\* C10: the tokens of one call are ordered by start offset, and no token
\* starts inside the span of an earlier placeholder token.
C10_TokensOrderedAndDisjoint ==
    \A j \in TokenIds : \A k \in TokenIds :
        j < k =>
            /\ ret.tokens[j].startIndex <= ret.tokens[k].startIndex
            /\ IsPlaceholderToken(ret.tokens[j]) =>
                   ret.tokens[k].startIndex > ret.tokens[j].endIndex

\* the frames of a stack, each with the stack below it
Frames(parents) == {[id |-> parents[i].id, type |-> parents[i].type,
                     parent |-> SubSeq(parents, i + 1, Len(parents))] :
                        i \in 1..Len(parents)}

IsClose(kind) == kind \in {"CloseBraceToken", "CloseBracketToken"}

CloseType(kind) == IF kind = "CloseBraceToken" THEN TOKEN_DELIM_OBJECT ELSE TOKEN_DELIM_ARRAY

\* C12: a close brace or bracket met on an empty parent stack leaves the stack
\* empty, raises no error and is emitted as a delimiter token, however many
\* unmatched closes follow one another.
C12_UnmatchedCloseIsTolerated ==
    \A i \in StepIds :
        (IsClose(ret.steps[i].kind) /\ ret.steps[i].parents = <<>>) =>
            /\ ret.steps[i].after = <<>>
            /\ ~ret.threw
            /\ ret.steps[i].error = "None"
            /\ ~ret.steps[i].skip
            /\ ret.steps[i].type = CloseType(ret.steps[i].kind)
            /\ \E j \in TokenIds :
                   /\ ret.tokens[j].startIndex = ret.steps[i].offset
                   /\ ret.tokens[j].scopes = CloseType(ret.steps[i].kind)

\* two unmatched closes in a row, a brace and a bracket
C12_Witness ==
    \E i \in StepIds :
        /\ i > 1
        /\ IsClose(ret.steps[i].kind) /\ IsClose(ret.steps[i - 1].kind)
        /\ ret.steps[i].kind # ret.steps[i - 1].kind
        /\ ret.steps[i - 1].parents = <<>>
        /\ ret.steps[i].parents = <<>>
        /\ ret.endState.parents = <<>>

\* the raw tokens of text from position p on, as the scanner alone yields them
RECURSIVE RawTokens(_, _)
RawFrom(text, t) == IF t.kind = "EOF" THEN <<>> ELSE <<t>> \o RawTokens(text, t.pos)

RawTokens(text, p) == RawFrom(text, Scan(text, p))

\* the token kinds a raw token of kind k stands for
ScopesOf(k) ==
    CASE k \in {"OpenBraceToken", "CloseBraceToken"} -> {TOKEN_DELIM_OBJECT}
      [] k \in {"OpenBracketToken", "CloseBracketToken"} -> {TOKEN_DELIM_ARRAY}
      [] k = "ColonToken" -> {TOKEN_DELIM_COLON}
      [] k = "CommaToken" -> {TOKEN_DELIM_COMMA}
      [] k \in {"TrueKeyword", "FalseKeyword"} -> {TOKEN_VALUE_BOOLEAN}
      [] k = "NullKeyword" -> {TOKEN_VALUE_NULL}
      [] k = "StringLiteral" -> {TOKEN_PROPERTY_NAME, TOKEN_VALUE_STRING}
      [] k = "NumericLiteral" -> {TOKEN_VALUE_NUMBER}
      [] k = "LineCommentTrivia" -> IF cfg.comments THEN {TOKEN_COMMENT_LINE} ELSE {""}
      [] k = "BlockCommentTrivia" -> IF cfg.comments THEN {TOKEN_COMMENT_BLOCK} ELSE {""}
      [] OTHER -> {""}

\* text[from..to] holds '{{' and, later, '}}'
HoldsPlaceholder(text, from, to) ==
    \E a \in from..to : \E b \in from..to :
        /\ b >= a + 2 /\ b + 1 <= to
        /\ At(text, a) = "{" /\ At(text, a + 1) = "{"
        /\ At(text, b) = "}" /\ At(text, b + 1) = "}"

\* raw is the token sequence of a fragment of valid JSON (comments allowed)
\* without placeholders: no scan error, no Unknown token, no two open braces
\* in a row, no string literal that holds a placeholder
ValidFragment(text, raw) ==
    /\ \A i \in 1..Len(raw) :
           /\ raw[i].kind # "Unknown"
           /\ raw[i].error = "None"
           /\ raw[i].kind = "StringLiteral" =>
                  ~HoldsPlaceholder(text, raw[i].tokenOffset + 1, raw[i].pos - 2)
    /\ \A i \in 1..(Len(raw) - 1) :
           ~(raw[i].kind = "OpenBraceToken" /\ raw[i + 1].kind = "OpenBraceToken")

\* the tokens agree with the raw tokens, one for one
MatchesRaw(tokens, raw) ==
    /\ Len(tokens) = Len(raw)
    /\ \A i \in 1..Len(raw) :
           /\ tokens[i].startIndex = raw[i].tokenOffset
           /\ tokens[i].scopes \in ScopesOf(raw[i].kind)

\* C13: for a valid single-line JSON fragment without placeholders tokenize
\* emits one token per raw token of the scanner, at the scanner's token
\* offset and of the kind the scanner's token kind determines; the plain
\* variant never emits a placeholder token.
C13_TokensMatchRawScanner ==
    Tokenized =>
        /\ (Inserted = 0 /\ ValidFragment(line, RawTokens(line, 0))) =>
               MatchesRaw(ret.tokens, RawTokens(line, 0))
        /\ cfg.languageId = "json" =>
               \A j \in TokenIds : ~IsPlaceholderToken(ret.tokens[j])

\* the placeholder-aware variant tokenized a fragment with a string, a colon
\* and a number
C13_Witness ==
    /\ Tokenized
    /\ cfg.languageId = "postman_json"
    /\ Inserted = 0
    /\ ValidFragment(line, RawTokens(line, 0))
    /\ Len(ret.tokens) >= 3
    /\ \E i \in StepIds : ret.steps[i].kind = "StringLiteral"
    /\ \E i \in StepIds : ret.steps[i].kind = "NumericLiteral"

Formatted == fmt.phase \in {"formatted", "reformatted"}

FmtStepIds == IF Formatted THEN 1..Len(fmt.result.steps) ELSE {}

EditIds == IF Formatted THEN 1..Len(fmt.result.edits) ELSE {}

\* C14: formatting the malformed document '{"a":1 2}' returns no edit at all.
C14_MalformedExampleGetsNoEdits ==
    (fmt.phase = "formatted" /\ fmt.text = MalformedExample /\ fmt.range = <<>>) =>
        fmt.result.edits = <<>>

\* C15: once a token pair left the stream marked errored, the error flag
\* stays set and no later token pair of the scan emits an edit.
C15_ErrorFlagIsSticky ==
    \A i \in FmtStepIds : \A j \in FmtStepIds :
        (i < j /\ fmt.result.steps[i].hasError) =>
            /\ fmt.result.steps[j].hasError
            /\ fmt.result.steps[j].after = fmt.result.steps[j].before

\* C16: after the edits of a whole-document format are applied, formatting
\* the result again with the same options returns no edit.
C16_FormatIsIdempotent ==
    fmt.phase = "reformatted" => fmt.result.edits = <<>>

\* C17: when a range is requested every edit's span [offset, offset+length)
\* lies within [rangeStart, rangeEnd), and every edit, with or without a
\* range, replaces text by different text.
C17_EditsWithinRangeAndNotNoOps ==
    Formatted =>
        \A i \in EditIds :
            /\ fmt.range # <<>> =>
                   /\ fmt.result.rangeStart <= fmt.result.edits[i].offset
                   /\ fmt.result.edits[i].offset + fmt.result.edits[i].length
                          <= fmt.result.rangeEnd
            /\ Substring(fmt.text, fmt.result.edits[i].offset,
                         fmt.result.edits[i].offset + fmt.result.edits[i].length)
                   # fmt.result.edits[i].content

\* a proper sub-range was requested and the format emitted edits
RangeFormatted ==
    /\ fmt.phase = "formatted"
    /\ fmt.range # <<>>
    /\ fmt.range[1].length > 0
    /\ fmt.range[1].length < Len(fmt.text)

\* C18: range formatting emits no edit that lies entirely outside the range:
\* every edit has offset < rangeEnd and offset + length > rangeStart.
C18_NoEditOutsideRange ==
    (fmt.phase = "formatted" /\ fmt.range # <<>>) =>
        \A i \in EditIds :
            /\ fmt.result.edits[i].offset < fmt.range[1].offset + fmt.range[1].length
            /\ fmt.result.edits[i].offset + fmt.result.edits[i].length > fmt.range[1].offset

\* the edits of the format of the whole document that lie outside the range
EditsOutsideRange(edits) ==
    {i \in 1..Len(edits) :
        \/ edits[i].offset >= fmt.range[1].offset + fmt.range[1].length
        \/ edits[i].offset + edits[i].length <= fmt.range[1].offset}

\* a range inside a longer line is formatted: the scan covers text in front
\* of the range, an edit is emitted, and an edit the format of the whole
\* document makes outside the range is not
C18_Witness ==
    /\ RangeFormatted
    /\ fmt.result.formatTextStart < fmt.range[1].offset
    /\ fmt.result.edits # <<>>
    /\ EditsOutsideRange(formatJSON(fmt.text, <<>>, fmt.options).edits) # {}

\* C19: the edits are ordered by offset and do not overlap: each edit ends at
\* or before the offset of the next one.
C19_EditsOrderedAndDisjoint ==
    Formatted =>
        \A i \in EditIds : \A j \in EditIds :
            j = i + 1 =>
                fmt.result.edits[i].offset + fmt.result.edits[i].length
                    <= fmt.result.edits[j].offset

\* a range is formatted: the white space in front of a placeholder, the gap
\* between the placeholder and a comment on its line and the white space
\* after the comment each get an edit
C19_Witness ==
    /\ fmt.phase = "formatted"
    /\ fmt.range # <<>>
    /\ Len(fmt.result.edits) >= 3
    /\ \E j \in FmtStepIds : fmt.result.steps[j].pv # <<>>
    /\ \E j \in FmtStepIds : fmt.result.steps[j].commented

\* the edit e touches a character of the document between the offsets a and
\* b (both included), or inserts text between two of them
Touches(e, a, b) ==
    IF e.length = 0 THEN a < e.offset /\ e.offset <= b
    ELSE e.offset <= b /\ e.offset + e.length > a

\* the steps of the format in which the hook recognised a placeholder
HookedSteps == {j \in FmtStepIds : fmt.result.steps[j].pv # <<>>}

\* the document offsets of the first '{' and of the last '}' of the run the
\* hook read in formatText in step j
RunStart(j) == fmt.result.formatTextStart + fmt.result.steps[j].pv[1].startIndex

RunEnd(j) == fmt.result.formatTextStart + fmt.result.steps[j].pv[1].endIndex

\* C20: a '{{...}}' run recognised by the formatter's hook is one literal
\* token: no edit touches a character from its first '{' to its last '}',
\* and the scan resumes at the first token after it, in whole-document and
\* in range formatting.
C20_PlaceholderIsOneToken ==
    \A j \in HookedSteps :
        /\ \A i \in EditIds : ~Touches(fmt.result.edits[i], RunStart(j), RunEnd(j))
        /\ fmt.result.steps[j].resume =
               fmt.result.formatTextStart
               + scanNext(FormatContext(fmt.text, fmt.range, fmt.options).formatText,
                          fmt.result.steps[j].pv[1].endIndex + 1).tok.tokenOffset

\* the spans the tokenizer emitted as top-level placeholder tokens, each from
\* the first '{' of the first token spliced by one detection to the last '}'
\* of the last one
TokenizerSpans ==
    {<<ret.steps[i].spliced[1].startIndex,
       ret.steps[i].spliced[Len(ret.steps[i].spliced)].endIndex>> :
         i \in {k \in StepIds : ret.steps[k].detect = "matched"}}

\* the spans the formatter's hook treated as one literal
FormatterSpans ==
    {<<fmt.result.steps[j].pv[1].startIndex, fmt.result.steps[j].pv[1].endIndex>> :
         j \in HookedSteps}

\* position p of text lies inside a string literal of the raw token stream
Quoted(text, p) ==
    \E i \in 1..Len(RawTokens(text, 0)) :
        /\ RawTokens(text, 0)[i].kind = "StringLiteral"
        /\ RawTokens(text, 0)[i].tokenOffset <= p
        /\ p < RawTokens(text, 0)[i].pos

\* C21: on a single line the placeholder-aware tokenizer emits an unquoted
\* span as postman.variable token(s) exactly when the formatter's hook treats
\* the span with the same first '{' and last '}' as one literal.
C21_TokenizerAndFormatterAgree ==
    (Tokenized /\ Formatted) =>
        {sp \in TokenizerSpans : ~Quoted(line, sp[1])}
            = {sp \in FormatterSpans : ~Quoted(line, sp[1])}

\* the four lines '{', '  "a": 1,', '  "b": 2', '}' joined by '\n'
FormattedExample ==
    <<"{", "\n", " ", " ", "\"", "a", "\"", ":", " ", "1", ",", "\n",
      " ", " ", "\"", "b", "\"", ":", " ", "2", "\n", "}">>

ExampleOptions == <<[tabSize |-> <<2>>, insertSpaces |-> <<TRUE>>, eol |-> <<>>]>>

\* C22: formatting the whole document '{"a":1,"b":2}' with tabSize 2 and
\* insertSpaces true and applying the edits yields the four lines '{',
\* '  "a": 1,', '  "b": 2', '}' joined by '\n'.
C22_ExampleFormatsToFourLines ==
    (fmt.phase = "reformatted" /\ fmt.original = WellFormedExample /\ fmt.o = ExampleOptions)
        => fmt.text = FormattedExample

\* the example was formatted with these options and its edits were applied
C22_Witness ==
    /\ fmt.phase = "reformatted"
    /\ fmt.original = WellFormedExample
    /\ fmt.o = ExampleOptions
    /\ Len(fmt.first.edits) = 5
    /\ fmt.text # fmt.original

\* the options with the documented default in place of each omitted one
DocumentedOptions(o) ==
    [tabSize |-> IF o = <<>> \/ o[1].tabSize = <<>> THEN 4 ELSE o[1].tabSize[1],
     insertSpaces |-> IF o = <<>> \/ o[1].insertSpaces = <<>> THEN TRUE
                      ELSE o[1].insertSpaces[1],
     eol |-> <<"\n">>]

\* C23: format falls back to the documented default for every omitted
\* option: with o absent, or with tabSize or insertSpaces omitted, the edits
\* are those of tabSize 4 and insertSpaces true in place of what is omitted.
C23_OmittedOptionsGetDefaults ==
    fmt.phase = "formatted" =>
        fmt.result.edits = formatJSON(fmt.text, <<>>, DocumentedOptions(fmt.o)).edits

\* the first '\r\n' or '\n' of text from position i on, <<>> when there is none
RECURSIVE FirstTerminator(_, _)
FirstTerminator(text, i) ==
    IF i >= Len(text) THEN <<>>
    ELSE IF At(text, i) = "\r" /\ At(text, i + 1) = "\n" THEN <<"\r", "\n">>
    ELSE IF At(text, i) = "\n" THEN <<"\n">>
    ELSE FirstTerminator(text, i + 1)

\* the terminator the document and the caller's options o call for
ExpectedEOL(text, o) ==
    IF FirstTerminator(text, 0) # <<>> THEN FirstTerminator(text, 0)
    ELSE IF o # <<>> /\ o[1].eol # <<>> THEN o[1].eol[1]
    ELSE <<"\n">>

HasLineBreak(content) == \E k \in 1..Len(content) : content[k] \in {"\r", "\n"}

\* the indentation that follows the terminator in content: spaces and tabs
IsTerminatorAndIndent(content, eol) ==
    /\ Len(content) >= Len(eol)
    /\ SubSeq(content, 1, Len(eol)) = eol
    /\ \A k \in (Len(eol) + 1)..Len(content) : content[k] \in {" ", "\t"}

\* C24: every inserted newline uses the first '\r\n' or '\n' of the
\* document; when the document has none, the caller's eol option; when that
\* is absent, '\n'.
C24_TerminatorOfDocumentElseOption ==
    fmt.phase = "formatted" =>
        \A i \in EditIds :
            HasLineBreak(fmt.result.edits[i].content) =>
                IsTerminatorAndIndent(fmt.result.edits[i].content,
                                      ExpectedEOL(fmt.text, fmt.o))

\* the steps of the call in which the top-level detection found a placeholder
MatchedSteps == {i \in StepIds : ret.steps[i].detect = "matched"}

\* the position in the typed line of the last '}' of the tokens step i spliced
SplicedLast(i) == ret.steps[i].spliced[Len(ret.steps[i].spliced)].endIndex

\* C25: after a successful top-level detection, whatever the prior state,
\* the scanner resumes at the character after the placeholder's closing
\* '}}', neither closing brace is scanned again as a close brace, and the
\* parent stack is as it was before the first of the two open braces.
C25_ResumesAfterPlaceholder ==
    \A i \in MatchedSteps :
        /\ i > 1
        /\ ret.steps[i].resume - Inserted = SplicedLast(i) + 1
        /\ \A k \in StepIds :
               (k > i /\ ret.steps[k].kind = "CloseBraceToken") =>
                   ret.steps[k].from - Inserted > SplicedLast(i)
        /\ ret.steps[i].after = ret.steps[i - 1].parents

\* The matching the claim describes, over the set of still-open '{' markers:
\* at a '}}' the nearest adjacent pair of open markers is matched and the
\* markers above it are discarded with it; without such a pair every open
\* marker is discarded.  The matches as <<first '{', second '}'>>.
SetMax(S) == CHOOSE x \in S : \A y \in S : y <= x

RECURSIVE NearestPairs(_, _, _, _)
NearestPairs(text, pos, open, matches) ==
    IF pos >= Len(text) THEN matches
    ELSE IF At(text, pos) = "{"
    THEN NearestPairs(text, pos + 1, open \cup {pos}, matches)
    ELSE IF At(text, pos) = "}" /\ pos + 1 < Len(text) /\ At(text, pos + 1) = "}"
    THEN IF {x \in open : x + 1 \in open} # {}
         THEN NearestPairs(text, pos + 2,
                           {y \in open : y < SetMax({x \in open : x + 1 \in open})},
                           matches \cup {<<SetMax({x \in open : x + 1 \in open}), pos + 1>>})
         ELSE NearestPairs(text, pos + 1, {}, matches)
    ELSE NearestPairs(text, pos + 1, open, matches)

\* the matches that lie in no other match
Outermost(matches) ==
    {m \in matches : ~\E n \in matches : n # m /\ n[1] <= m[1] /\ m[2] <= n[2]}

Scanned == phase = "scanned"

\* the placeholders the scan returned, relative to the start of the text
ReturnedPlaceholders ==
    {<<ret.tokens[j].startIndex - ret.steps[1].offset,
       ret.tokens[j].endIndex - ret.steps[1].offset>> :
         j \in {k \in 1..Len(ret.tokens) : IsPlaceholderToken(ret.tokens[k])}}

\* C26: the placeholders createPostmanVariableScanner returns are the
\* outermost of the matches of the nearest adjacent pair of open markers at
\* each '}}', each from the first '{' of the pair to the second '}'; none is
\* contained in or overlaps another.
C26_OutermostNearestPairs ==
    Scanned =>
        /\ ReturnedPlaceholders = Outermost(NearestPairs(line, 0, {}, {}))
        /\ \A m \in ReturnedPlaceholders : IsPlaceholderText(line, m[1], m[2])
        /\ \A m \in ReturnedPlaceholders : \A n \in ReturnedPlaceholders :
               m # n => (m[2] < n[1] \/ n[2] < m[1])
        /\ Cardinality(ReturnedPlaceholders)
               = Cardinality({k \in 1..Len(ret.tokens) : IsPlaceholderToken(ret.tokens[k])})

\* a text with a match nested in another: only the outer one is returned
C26_Witness ==
    /\ Scanned
    /\ Cardinality(NearestPairs(line, 0, {}, {})) >= 2
    /\ Outermost(NearestPairs(line, 0, {}, {})) # NearestPairs(line, 0, {}, {})
    /\ ReturnedPlaceholders # {}

\* the position of the first ',', ':' or ']' of text at or after p, the
\* length of text (the end of the line) when there is none
RECURSIVE FirstDelimiter(_, _)
FirstDelimiter(text, p) ==
    IF p >= Len(text) \/ At(text, p) \in {",", ":", "]"} THEN p
    ELSE FirstDelimiter(text, p + 1)

\* the steps of the call in which the top-level detection was attempted
DetectSteps == {i \in StepIds : ret.steps[i].detect # "none"}

\* C27: top-level detection is attempted only at the second of exactly two
\* consecutive open braces, and only over the text from the first of them
\* up to the first ',', ':', ']' or the end of the line: no placeholder
\* token reaches beyond that delimiter, and every top-level placeholder
\* token comes from such a detection.
C27_DetectionIsBounded ==
    /\ \A i \in DetectSteps :
           /\ i > 1
           /\ ret.steps[i].kind = "OpenBraceToken"
           /\ ret.steps[i - 1].kind = "OpenBraceToken"
           /\ ret.steps[i - 1].resume = ret.steps[i].from
           /\ ret.steps[i - 1].to = ret.steps[i].from
           /\ i > 2 => (ret.steps[i - 2].kind # "OpenBraceToken"
                          \/ ret.steps[i - 2].resume # ret.steps[i - 1].from)
    /\ \A i \in MatchedSteps :
           \A k \in 1..Len(ret.steps[i].spliced) :
               /\ ret.steps[i].spliced[k].startIndex >= LinePos(ret.steps[i - 1])
               /\ ret.steps[i].spliced[k].endIndex
                      < FirstDelimiter(line, LinePos(ret.steps[i - 1]))
    /\ \A j \in TokenIds :
           ret.tokens[j].scopes = TOKEN_POSTMAN_VARIABLE =>
               \E i \in MatchedSteps : \E k \in 1..Len(ret.steps[i].spliced) :
                   ret.steps[i].spliced[k] = ret.tokens[j]

\* two open braces whose '}}' lies beyond a colon: the detection found nothing
C27_Witness ==
    \E i \in StepIds :
        /\ ret.steps[i].detect = "failed"
        /\ \E p \in 0..Len(line) :
               /\ p > FirstDelimiter(line, LinePos(ret.steps[i - 1]))
               /\ At(line, p) = "}" /\ At(line, p + 1) = "}"
        /\ At(line, FirstDelimiter(line, LinePos(ret.steps[i - 1]))) = ":"

\* The JSON grammar, read off the characters of text from p on: stack holds
\* the containers open so far, expect what may come next.
After(stack) == IF stack = <<>> THEN "end" ELSE "more"

RECURSIVE ClosingQuote(_, _)
ClosingQuote(text, p) ==
    IF p >= Len(text) THEN -1
    ELSE IF At(text, p) = "\"" THEN p
    ELSE ClosingQuote(text, p + 1)

RECURSIVE EndOfDigits(_, _)
EndOfDigits(text, p) == IF At(text, p) = "1" THEN EndOfDigits(text, p + 1) ELSE p

RECURSIVE Parse(_, _, _, _)
Parse(text, p, stack, expect) ==
    LET ch == At(text, p)
        top == IF stack = <<>> THEN "" ELSE stack[Len(stack)]
        value == expect \in {"value", "valueOrClose"}
        bad == [stack |-> <<>>, expect |-> "bad"]
    IN  IF p >= Len(text) THEN [stack |-> stack, expect |-> expect]
        ELSE IF ch \in {" ", "\n", "\r", "\t"} THEN Parse(text, p + 1, stack, expect)
        ELSE IF ch = "[" /\ value THEN Parse(text, p + 1, Append(stack, "["), "valueOrClose")
        ELSE IF ch = "{" /\ value THEN Parse(text, p + 1, Append(stack, "{"), "keyOrClose")
        ELSE IF ch = "]" /\ top = "[" /\ expect \in {"valueOrClose", "more"}
        THEN Parse(text, p + 1, Front(stack), After(Front(stack)))
        ELSE IF ch = "}" /\ top = "{" /\ expect \in {"keyOrClose", "more"}
        THEN Parse(text, p + 1, Front(stack), After(Front(stack)))
        ELSE IF ch = "\"" /\ ClosingQuote(text, p + 1) >= 0 /\ expect \in {"key", "keyOrClose"}
        THEN Parse(text, ClosingQuote(text, p + 1) + 1, stack, "colon")
        ELSE IF ch = "\"" /\ ClosingQuote(text, p + 1) >= 0 /\ value
        THEN Parse(text, ClosingQuote(text, p + 1) + 1, stack, After(stack))
        ELSE IF ch = ":" /\ expect = "colon" THEN Parse(text, p + 1, stack, "value")
        ELSE IF ch = "," /\ expect = "more"
        THEN Parse(text, p + 1, stack, IF top = "[" THEN "value" ELSE "key")
        ELSE IF ch = "1" /\ value THEN Parse(text, EndOfDigits(text, p), stack, After(stack))
        ELSE bad

WellFormed(text) == Parse(text, 0, <<>>, "value").expect = "end"

\* the containers open around the token at p (no bracket stands in a string
\* of these documents); a bracket is not inside the container it delimits
Containers(text, p) ==
    Cardinality({q \in 0..(p - 1) : At(text, q) \in {"[", "{"}})
        - Cardinality({q \in 0..(p - 1) : At(text, q) \in {"]", "}"}})
        - (IF At(text, p) \in {"]", "}"} THEN 1 ELSE 0)

IndentUnit(options) ==
    IF options.insertSpaces THEN repeat(<<" ">>, options.tabSize) ELSE <<"\t">>

\* the line break and indentation before the token at p
NewLineBefore(text, p, options) ==
    <<"\n">> \o repeat(IndentUnit(options), Containers(text, p))

IndentBefore(i) == IF i = 1 THEN 0 ELSE fmt.result.steps[i - 1].indentLevel

\* the step at an open token directly followed by its close token
EmptyContainer(step) ==
    /\ ~step.commented
    /\ \/ step.firstToken = "OpenBraceToken" /\ step.secondToken = "CloseBraceToken"
       \/ step.firstToken = "OpenBracketToken" /\ step.secondToken = "CloseBracketToken"

WellFormedWhole == Formatted /\ fmt.range = <<>> /\ WellFormed(fmt.text)

\* C28: in a whole-document format of a well-formed document the indent
\* level is never negative and is 0 after the last token; every line break
\* put before a token is followed by as many indent units as containers are
\* open around that token (initialIndentLevel is 0); an open token directly
\* followed by its close token gets the empty string between the two and
\* leaves the indent level as it was.
C28_IndentFollowsNesting ==
    WellFormedWhole =>
        /\ fmt.result.initialIndentLevel = 0
        /\ \A i \in FmtStepIds : fmt.result.steps[i].indentLevel >= 0
        /\ fmt.result.steps # <<>> =>
               fmt.result.steps[Len(fmt.result.steps)].indentLevel = 0
        /\ \A i \in FmtStepIds :
               HasLineBreak(fmt.result.steps[i].replaceContent) =>
                   fmt.result.steps[i].replaceContent
                       = NewLineBefore(fmt.text, fmt.result.steps[i].secondTokenStart,
                                       fmt.options)
        /\ \A j \in EditIds :
               HasLineBreak(fmt.result.edits[j].content) =>
                   fmt.result.edits[j].content
                       = NewLineBefore(fmt.text,
                                       fmt.result.edits[j].offset + fmt.result.edits[j].length,
                                       fmt.options)
        /\ \A i \in FmtStepIds :
               EmptyContainer(fmt.result.steps[i]) =>
                   /\ fmt.result.steps[i].replaceContent = <<>>
                   /\ fmt.result.steps[i].indentLevel = IndentBefore(i)
                   /\ \A j \in (fmt.result.steps[i].before + 1)..fmt.result.steps[i].after :
                          fmt.result.edits[j].content = <<>>

\* a well-formed document with a container in a container and a blank
\* between an open token and its close token, formatted as a whole
C28_Witness ==
    /\ WellFormedWhole
    /\ fmt.phase = "formatted"
    /\ \E j \in EditIds :
           /\ HasLineBreak(fmt.result.edits[j].content)
           /\ Containers(fmt.text, fmt.result.edits[j].offset + fmt.result.edits[j].length) = 2
    /\ \E i \in FmtStepIds :
           /\ EmptyContainer(fmt.result.steps[i])
           /\ IndentBefore(i) > 0
           /\ fmt.result.steps[i].after > fmt.result.steps[i].before

Terminators == {"\r", "\n"}

\* the position after the last line terminator before p, 0 when there is none
AfterPreviousTerminator(text, p) ==
    SetMax({0} \cup {q + 1 : q \in {q \in 0..(p - 1) : At(text, q) \in Terminators}})

\* the position of the first line terminator at or after p, the end of the
\* text when there is none
NextTerminator(text, p) ==
    CHOOSE e \in p..Len(text) :
        /\ e = Len(text) \/ At(text, e) \in Terminators
        /\ \A q \in p..(e - 1) : At(text, q) \notin Terminators

\* the length of the leading run of spaces and tabs of text
LeadingWhite(text) ==
    CHOOSE n \in 0..Len(text) :
        /\ \A q \in 0..(n - 1) : At(text, q) \in {" ", "\t"}
        /\ At(text, n) \notin {" ", "\t"}

\* 1 for each leading space, tabSize for each leading tab
Columns(text, tabSize) ==
    Cardinality({q \in 0..(LeadingWhite(text) - 1) : At(text, q) = " "})
        + tabSize * Cardinality({q \in 0..(LeadingWhite(text) - 1) : At(text, q) = "\t"})

\* a range, empty or not, was formatted
RangeGiven == Formatted /\ fmt.range # <<>>

ExtendedStart == AfterPreviousTerminator(fmt.text, fmt.range[1].offset)

ExtendedEnd == NextTerminator(fmt.text, fmt.range[1].offset + fmt.range[1].length)

\* C29: in a range format the scanned text reaches from the character after
\* the line terminator before the range (or the start of the document) to
\* the next line terminator after it (or the end of the document), and
\* initialIndentLevel is floor(columns / tabSize) of the leading spaces
\* (1 each) and tabs (tabSize each) of that text.
C29_RangeExtendsToWholeLines ==
    RangeGiven =>
        /\ fmt.result.formatTextStart = ExtendedStart
        /\ fmt.result.formatText = Substring(fmt.text, ExtendedStart, ExtendedEnd)
        /\ fmt.result.initialIndentLevel
               = Columns(Substring(fmt.text, ExtendedStart, ExtendedEnd), fmt.options.tabSize)
                     \div fmt.options.tabSize

\* a range inside the second line, which starts with a tab and a blank
C29_Witness ==
    /\ RangeGiven
    /\ ExtendedStart > 0
    /\ ExtendedStart < fmt.range[1].offset
    /\ ExtendedEnd > fmt.range[1].offset + fmt.range[1].length
    /\ \E q \in 0..1 : /\ At(fmt.result.formatText, q) = "\t"
                        /\ At(fmt.result.formatText, 1 - q) = " "
    /\ fmt.options.tabSize = 2
    /\ fmt.result.initialIndentLevel = 1

\* the line as tokenize scans it, with the synthetic prefix
ScannedLine == InsertedCharacters(state) \o line

\* the open markers at the positions P, in the order they are pushed
RECURSIVE MarkerStack(_)
MarkerStack(P) ==
    IF P = {} THEN <<>>
    ELSE Append(MarkerStack(P \ {SetMax(P)}), PvToken(SetMax(P), "", 0))

\* the stacks the pop loop can find at a '}}' of the line
MarkerStacks ==
    {MarkerStack(P) : P \in SUBSET {q \in 0..(Len(line) - 1) : At(line, q) = "{"}}

\* the pop loop takes markers off the top of the stack only, at least one
\* when there is one, and stops
PopsAreFinite(stack, r) ==
    /\ Len(r.stack) <= Len(stack)
    /\ r.stack = SubSeq(stack, 1, Len(r.stack))
    /\ stack # <<>> => Len(r.stack) < Len(stack)
    /\ r.found => r.popped = stack[Len(r.stack) + 1]
    /\ ~r.found => r.stack = <<>>

\* C30: tokenize terminates: every iteration of the scan loop leaves the
\* scanner further on than it found it (after a setPosition too), the
\* iterations are at most as many as the characters scanned, the loop ends
\* at EOF without 'Scanner did not advance', and the pop loop of the
\* bracket matching ends on every stack of open markers.
C30_TokenizeTerminates ==
    Tokenized =>
        /\ \A i \in StepIds :
               /\ ret.steps[i].to > ret.steps[i].from
               /\ ret.steps[i].resume > ret.steps[i].from
               /\ ret.steps[i].from < Len(ScannedLine)
               /\ ret.steps[i].from = (IF i = 1 THEN 0 ELSE ret.steps[i - 1].resume)
        /\ Len(ret.steps) <= Len(ScannedLine)
        /\ ~ret.threw
        /\ Scan(ScannedLine,
                IF ret.steps = <<>> THEN 0 ELSE ret.steps[Len(ret.steps)].resume).kind = "EOF"
        /\ \A stack \in MarkerStacks : PopsAreFinite(stack, PvPopPairs(stack, <<>>))

\* under the prefix '/*' the scanner is set to the position it had reached
\* already, and the loop goes on from there
C30_Witness ==
    \E i \in MatchedSteps :
        /\ Inserted = 2
        /\ ret.steps[i].resume = ret.steps[i].to
        /\ i < Len(ret.steps)
        /\ Cardinality(MarkerStacks) >= 4

WhiteSpace == {" ", "\t", "\r", "\n"}

\* the characters of text that are no white space, in order
NonWhite(text) == SelectSeq(text, LAMBDA ch : ch \notin WhiteSpace)

\* the characters of the document that edit e replaces
Replaced(e) == Substring(fmt.text, e.offset, e.offset + e.length)

\* C31: every edit of a format, whole or over a range, with or without
\* placeholders, replaces only spaces, tabs, '\r' and '\n', so the document
\* with the edits applied has the same characters other than white space.
C31_EditsReplaceOnlyWhiteSpace ==
    fmt.phase = "formatted" =>
        /\ \A j \in EditIds :
               /\ fmt.result.edits[j].length >= 0
               /\ \A k \in 1..Len(Replaced(fmt.result.edits[j])) :
                      Replaced(fmt.result.edits[j])[k] \in WhiteSpace
        /\ NonWhite(ApplyEdits(fmt.text, fmt.result.edits, 1)) = NonWhite(fmt.text)

Modified == phase = "modified" /\ NotBlank(line)

LineIds == IF Modified THEN 1..Len(ret.steps) ELSE {}

\* text with a double quote before each position of starts and after each
\* position of ends, from position p on
RECURSIVE WithQuotes(_, _, _, _)
WithQuotes(text, p, starts, ends) ==
    IF p >= Len(text) THEN <<>>
    ELSE (IF p \in starts THEN <<"\"">> ELSE <<>>)
         \o <<text[p + 1]>>
         \o (IF p \in ends THEN <<"\"">> ELSE <<>>)
         \o WithQuotes(text, p + 1, starts, ends)

WrappedIds(rec) == {rec.wrapped[k] : k \in 1..Len(rec.wrapped)}

\* placeholder j of the line starts at or after the end of the one wrapped last
ToBeWrapped(rec, j) ==
    \/ j = 1
    \/ /\ {i \in WrappedIds(rec) : i < j} # {}
       /\ rec.postmanVariables[j].startIndex
              >= rec.postmanVariables[SetMax({i \in WrappedIds(rec) : i < j})].endIndex

Contains(text, part) ==
    \E i \in 0..(Len(text) - Len(part)) : Substring(text, i, i + Len(part)) = part

\* C32: the content is split at its line terminator, each line is tokenized
\* from the end state of the line before it (the first from the initial
\* state), and each top-level placeholder token that does not start before
\* the end of the one wrapped last gets a double quote right before its
\* first '{' and right after its last '}'; nothing else changes, so a line
\* grows by two characters for each placeholder wrapped.
C32_PlaceholdersAreQuoted ==
    Modified =>
        /\ Join([k \in 1..Len(ret.steps) |-> ret.steps[k].line], ContentEOL(line)) = line
        /\ \A k \in LineIds :
               /\ ~Contains(ret.steps[k].line, ContentEOL(line))
               /\ ret.steps[k].state
                      = (IF k = 1 THEN InitialState ELSE ret.steps[k - 1].endState)
               /\ ret.steps[k].endState
                      = tokenize(TRUE, ret.steps[k].line, ret.steps[k].state, 0,
                                 "postman_json", ret.steps[k].nextId).endState
               /\ ret.steps[k].postmanVariables
                      = SelectSeq(tokenize(TRUE, ret.steps[k].line, ret.steps[k].state, 0,
                                           "postman_json", ret.steps[k].nextId).tokens,
                                  LAMBDA t : t.scopes = TOKEN_POSTMAN_VARIABLE)
               /\ WrappedIds(ret.steps[k])
                      = {j \in 1..Len(ret.steps[k].postmanVariables) :
                             ToBeWrapped(ret.steps[k], j)}
               /\ \A j \in WrappedIds(ret.steps[k]) :
                      /\ At(ret.steps[k].line, ret.steps[k].postmanVariables[j].startIndex) = "{"
                      /\ At(ret.steps[k].line, ret.steps[k].postmanVariables[j].endIndex) = "}"
               /\ ret.steps[k].modified
                      = WithQuotes(ret.steps[k].line, 0,
                                   {ret.steps[k].postmanVariables[j].startIndex :
                                        j \in WrappedIds(ret.steps[k])},
                                   {ret.steps[k].postmanVariables[j].endIndex :
                                        j \in WrappedIds(ret.steps[k])})
               /\ Len(ret.steps[k].modified)
                      = Len(ret.steps[k].line) + 2 * Cardinality(WrappedIds(ret.steps[k]))
        /\ ret.tokens = Join([k \in 1..Len(ret.steps) |-> ret.steps[k].modified],
                             ContentEOL(line))

\* a placeholder is wrapped on a second line, which is tokenized from a state
\* that the first line left in a string or a comment
C32_Witness ==
    /\ Modified
    /\ Len(ret.steps) >= 2
    /\ ret.steps[2].state.scanError \in {"UnexpectedEndOfString", "UnexpectedEndOfComment"}
    /\ ret.steps[2].wrapped # <<>>

HandleIds == IF phase = "settings" THEN 1..Len(heap.handles) ELSE {}

\* the last call of setInstanceSettings for the uri of handle h
IsLatest(h) ==
    \A g \in HandleIds : heap.handles[g].uri = heap.handles[h].uri => g <= h

\* C33: a dispose removes only the setting its own call stored: the setting
\* of the last call for a URI stays in place as long as the handle of that
\* call is not disposed, whatever earlier handles for the URI are disposed,
\* once or twice.
C33_DisposeRemovesOwnSettingOnly ==
    \A h \in HandleIds :
        IsLatest(h) /\ heap.handles[h].disposed = 0 =>
            /\ heap.settings[heap.handles[h].uri] # <<>>
            /\ heap.settings[heap.handles[h].uri][1].by = h
====
